---------------------------- MODULE Spec2Model ----------------------------
(***************************************************************************)
(* Model of hhtsd, the hook-based HTTP server daemon:                      *)
(*   - collections.LinkedList and ResponseCache (the LRU response cache),  *)
(*   - lib-hook-async: HookExecutor / HookLoader (the hook registry),      *)
(*   - ServerInstance: the request dispatcher and response renderer.       *)
(*                                                                         *)
(* JavaScript values are records with a type tag t, as typeof and          *)
(* instanceof see them.                                                    *)
(***************************************************************************)
EXTENDS Integers, Sequences, FiniteSets, TLC

(***************************************************************************)
(* Bounds of the model.                                                    *)
(***************************************************************************)
\* the clock (Date.now()) runs over 0..MaxTime
MaxTime == 2
\* ResponseCache.sizeLimit of the cache driven directly (config.cacheSize)
CacheSizeLimit == 1000
\* continuation calls followed in one CALL-mode invocation
MaxContinues == 2

(***************************************************************************)
(* JavaScript values.                                                      *)
(***************************************************************************)
Undefined == [t |-> "undefined"]
Null == [t |-> "null"]
NaN == [t |-> "number", nan |-> TRUE, v |-> 0]
Num(n) == [t |-> "number", nan |-> FALSE, v |-> n]
Str(s) == [t |-> "string", v |-> s]

\* a < b on JavaScript numbers: false as soon as one side is NaN
NumLt(a, b) == ~a.nan /\ ~b.nan /\ a.v < b.v

\* a + b on JavaScript numbers
NumAdd(a, b) == IF a.t # "number" \/ b.t # "number" \/ a.nan \/ b.nan THEN NaN ELSE Num(a.v + b.v)

\* ToNumber, for the values the model holds (of the strings, "300" is numeric)
ToNumber(x) ==
    CASE x.t = "number" -> x
      [] x.t = "null" -> Num(0)
      [] x.t = "string" -> (IF x.v = "" THEN Num(0) ELSE IF x.v = "300" THEN Num(300) ELSE NaN)
      [] OTHER -> NaN

\* a * n for a number n
NumMul(a, n) == IF ToNumber(a).nan THEN NaN ELSE Num(ToNumber(a).v * n)

\* ToBoolean
Truthy(x) ==
    CASE x.t \in {"undefined", "null"} -> FALSE
      [] x.t = "number" -> ~x.nan /\ x.v # 0
      [] x.t = "string" -> x.v # ""
      [] OTHER -> TRUE

(***************************************************************************)
(* collections.LinkedList.  A node is named by the value it carries (the   *)
(* cache creates one node per id and drops it when the id leaves the       *)
(* cache); NULL is the null reference.                                     *)
(***************************************************************************)
NULL == "null"

\* ids of the cache driven directly
CacheIds == {"A", "B", "C"}
\* ids the dispatcher forms: site.hosts[0] + "$" + request.url
RequestUrls == {"/", "/page", "/page?q=1"}
CanonicalHost == "foo.bar"
ServerIds == {CanonicalHost \o "$" \o u : u \in RequestUrls}
Ids == CacheIds \cup ServerIds

LinkedList_new ==
    [_head |-> NULL, _tail |-> NULL,
     prev |-> [n \in Ids |-> NULL], next |-> [n \in Ids |-> NULL]]

LinkedList_head(l) == l._head

LinkedList_tail_HeadOnly(l) == l._head

LinkedList_tail(l) == IF l._tail # NULL THEN l._tail ELSE l._head

LinkedList_insert(l, item) ==
    LET l1 == [l EXCEPT !.next[item] = NULL, !.prev[item] = NULL]
    IN  IF l1._head = NULL
        THEN [l1 EXCEPT !._head = item]
        ELSE LET h  == l1._head
                 l2 == [l1 EXCEPT !.prev[h] = item, !.next[item] = h]
                 l3 == IF l2._tail = NULL THEN [l2 EXCEPT !._tail = h] ELSE l2
             IN  [l3 EXCEPT !._head = item]

LinkedList_append_NoBackLink(l, item) ==
    LET l1 == [l EXCEPT !.next[item] = NULL, !.prev[item] = NULL]
    IN  IF l1._tail = NULL
        THEN IF l1._head # NULL
             THEN [l1 EXCEPT !.next[l1._head] = item, !._tail = item]
             ELSE [l1 EXCEPT !._head = item]
        ELSE [l1 EXCEPT !.next[l1._tail] = item, !._tail = item]

LinkedList_append(l, item) ==
    LET l1 == [l EXCEPT !.next[item] = NULL, !.prev[item] = NULL]
    IN  IF l1._tail = NULL
        THEN IF l1._head # NULL
             THEN [l1 EXCEPT !.next[l1._head] = item, !._tail = item,
                             !.prev[item] = l1._head]
             ELSE [l1 EXCEPT !._head = item]
        ELSE [l1 EXCEPT !.next[l1._tail] = item, !.prev[item] = l1._tail, !._tail = item]

LinkedList_remove(l, item) ==
    LET l1 == IF l.prev[item] # NULL
              THEN [l EXCEPT !.next[l.prev[item]] = l.next[item]] ELSE l
        l2 == IF l1.next[item] # NULL
              THEN [l1 EXCEPT !.prev[l1.next[item]] = l1.prev[item]] ELSE l1
        l3 == IF l2._tail = item
              THEN LET a == [l2 EXCEPT !._tail = l2.prev[item]]
                   IN  IF a._tail = a._head THEN [a EXCEPT !._tail = NULL] ELSE a
              ELSE l2
        l4 == IF l3._head = item
              THEN LET b == [l3 EXCEPT !._head = l3.next[item]]
                   IN  IF b._tail = b._head THEN [b EXCEPT !._tail = NULL] ELSE b
              ELSE l3
    IN  [l4 EXCEPT !.next[item] = NULL, !.prev[item] = NULL]

\* the values of the list from head() along next (at most n steps)
RECURSIVE LinkedList_walk(_, _, _)
LinkedList_walk(l, from, n) ==
    IF from = NULL \/ n = 0 THEN <<>>
    ELSE <<from>> \o LinkedList_walk(l, l.next[from], n - 1)

LinkedList_values(l) == LinkedList_walk(l, l._head, Cardinality(Ids) + 1)

(***************************************************************************)
(* ResponseCache.  _map[id] is NoItem when id is not a key of the map.     *)
(***************************************************************************)
NoItem == [t |-> "undefined"]

ResponseCacheItem(data, size, expire) ==
    [t |-> "ResponseCacheItem", data |-> data, size |-> size, expire |-> expire]

ResponseCache_new(limit) ==
    [size |-> 0, sizeLimit |-> limit,
     _map |-> [i \in Ids |-> NoItem], _lru |-> LinkedList_new]

ResponseCache_retv_KeepSize(c, id, time) ==
    LET x == c._map[id]
    IN  IF x.t = "ResponseCacheItem"
        THEN IF NumLt(x.expire, Num(time))
             THEN [cache  |-> [c EXCEPT !._map[id] = NoItem,
                                        !._lru = LinkedList_remove(@, id)],
                   result |-> Undefined]
             ELSE [cache  |-> [c EXCEPT !._lru =
                                  LinkedList_insert(LinkedList_remove(@, id), id)],
                   result |-> x.data]
        ELSE [cache |-> c, result |-> Undefined]

\* retv(id) at Date.now() = time: the cache after the call and the value returned
ResponseCache_retv(c, id, time) ==
    LET x == c._map[id]
    IN  IF x.t = "ResponseCacheItem"
        THEN IF NumLt(x.expire, Num(time))
             THEN [cache  |-> [c EXCEPT !.size = @ - x.size,
                                        !._map[id] = NoItem,
                                        !._lru = LinkedList_remove(@, id)],
                   result |-> Undefined]
             ELSE [cache  |-> [c EXCEPT !._lru =
                                  LinkedList_insert(LinkedList_remove(@, id), id)],
                   result |-> x.data]
        ELSE [cache |-> c, result |-> Undefined]

\* the while loop of stor: evict the tail while size > sizeLimit
RECURSIVE ResponseCache_evict(_)
ResponseCache_evict(c) ==
    IF c.size > c.sizeLimit
    THEN LET i == LinkedList_tail(c._lru)
         IN  IF i # NULL
             THEN LET x  == c._map[i]
                      c1 == IF x.t = "ResponseCacheItem"
                            THEN [c EXCEPT !.size = @ - x.size, !._map[i] = NoItem]
                            ELSE c
                  IN  ResponseCache_evict([c1 EXCEPT !._lru = LinkedList_remove(@, i)])
             ELSE c
    ELSE c

ResponseCache_stor_NoEvict(c, id, data, size, expires) ==
    LET x == c._map[id]
    IN  IF x.t = "ResponseCacheItem"
        THEN [c EXCEPT !._map[id] = ResponseCacheItem(data, size, expires),
                       !.size = @ + size - x.size]
        ELSE [c EXCEPT !.size = @ + size,
                       !._lru = LinkedList_insert(@, id),
                       !._map[id] = ResponseCacheItem(data, size, expires)]

ResponseCache_stor(c, id, data, size, expires) ==
    LET x  == c._map[id]
        c1 == IF x.t = "ResponseCacheItem"
              THEN [c EXCEPT !._map[id] = ResponseCacheItem(data, size, expires),
                             !.size = @ + size - x.size]
              ELSE [c EXCEPT !.size = @ + size,
                             !._lru = LinkedList_insert(@, id),
                             !._map[id] = ResponseCacheItem(data, size, expires)]
    IN  IF c1.sizeLimit > 0 THEN ResponseCache_evict(c1) ELSE c1

\* the ids that are keys of the map
ResponseCache_keys(c) == {i \in Ids : c._map[i].t = "ResponseCacheItem"}

RECURSIVE SumSizes(_, _)
SumSizes(c, ids) ==
    IF ids = {} THEN 0
    ELSE LET i == CHOOSE j \in ids : TRUE
         IN  c._map[i].size + SumSizes(c, ids \ {i})

(***************************************************************************)
(* lib-hook-async: hook functions, HookExecutor, HookLoader.               *)
(*                                                                         *)
(* The registry is the table HookLoader indexes by hook name (callHook,    *)
(* runHook and checkTarget read this._hooksTable[name]); the loop of       *)
(* __mergeHooksIntoTable is applied to that table and to the module it is  *)
(* given.  A chain (HookExecutor.hooks) is a sequence of hook functions;   *)
(* indices of the source are 0-based, those of the sequences 1-based.      *)
(***************************************************************************)
ALL_CATS == -1

\* a & b for a category of a function (ALL_CATS or a 26-bit mask) and a mask
RECURSIVE NatAnd(_, _)
NatAnd(a, b) ==
    IF a = 0 \/ b = 0 THEN 0
    ELSE (IF a % 2 = 1 /\ b % 2 = 1 THEN 1 ELSE 0) + 2 * NatAnd(a \div 2, b \div 2)

BitAnd(a, b) == IF a = -1 THEN b ELSE IF b = -1 THEN a ELSE NatAnd(a, b)

inclusiveMatchFunc_AllBits(cat, catMask) == BitAnd(cat, catMask) = catMask

inclusiveMatchFunc(cat, catMask) == BitAnd(cat, catMask) # 0

strictMatchFunc(cat, catMask) == cat = catMask

compareFunc_NoSentinel(strict, cat, catMask) ==
    IF strict THEN strictMatchFunc(cat, catMask)
    ELSE cat # -1 /\ catMask # -1 /\ NatAnd(cat, catMask) # 0

\* context._compareFunc(hook.cat, catMask)
compareFunc(strict, cat, catMask) ==
    IF strict THEN strictMatchFunc(cat, catMask) ELSE inclusiveMatchFunc(cat, catMask)

\* decodeCategory: letters is Undefined (no category group in the name) or the
\* sequence of the letters of the group
LetterCode == [c \in {"A", "B", "C", "a", "b", "c"} |->
                 CASE c \in {"A", "a"} -> 0 [] c \in {"B", "b"} -> 1 [] OTHER -> 2]

RECURSIVE Pow2(_)
Pow2(n) == IF n = 0 THEN 1 ELSE 2 * Pow2(n - 1)

RECURSIVE decodeLetters(_, _)
decodeLetters(letters, cat) ==
    IF letters = <<>> THEN cat
    ELSE LET bit == Pow2(LetterCode[Head(letters)])
         IN  decodeLetters(Tail(letters), IF NatAnd(cat, bit) = 0 THEN cat + bit ELSE cat)

decodeCategory(letters) ==
    IF letters = Undefined THEN ALL_CATS ELSE decodeLetters(letters.v, 0)

(* What a module file exports: a function named h<policy><cats>_<type>, its   *)
(* own priority field (Undefined when it has none) and its body: ret is the   *)
(* value a SYNC body returns and an ASYNC body hands to this.callback         *)
(* (PassLast: this._lastResult; Throws: the body throws; CallsBack(v): an      *)
(* ASYNC body that calls this.callback(v) before it returns).                 *)
PassLast == [t |-> "passLast"]
Throws == [t |-> "throws"]
CallsBack(v) == [t |-> "callsBack", v |-> v]

Export(policy, cats, type, priority, ret) ==
    [policy |-> policy, cats |-> cats, type |-> type, priority |-> priority, ret |-> ret]

Letters(l) == [t |-> "string", v |-> l]

\* the hook function object after __getHooksFromModule has set its fields
\* (declared: the priority field the module gave it, kept for reference)
HookFunction(e, sign, prio) ==
    [src        |-> sign,
     type       |-> e.type,
     cat        |-> decodeCategory(e.cats),
     priority   |-> prio,
     execPolicy |-> IF e.policy \in {"S", "s"} THEN 0
                    ELSE IF e.policy \in {"E", "e"} THEN 1 ELSE 2,
     ret        |-> e.ret,
     declared   |-> e.priority]

\* HookLoader.__getHooksFromModule: every export of the catalogue is a function
\* whose name matches HOOK_FUNC_REGEX_V2, so typeof mod[i] is "function"
getHooksFromModule(mod, sign) ==
    LET prio == IF mod.priority.t = "number" THEN mod.priority.v ELSE 0
    IN  [k \in 1 .. Len(mod.exports) |->
            HookFunction(mod.exports[k], sign,
                         IF "function" # "number"
                         THEN prio ELSE mod.exports[k].priority.v)]

\* Array.prototype.sort with (a, b) => a.priority - b.priority, stable
RECURSIVE InsertByPriority(_, _)
InsertByPriority(sorted, h) ==
    IF sorted = <<>> THEN <<h>>
    ELSE IF Head(sorted).priority - h.priority > 0
         THEN <<h>> \o sorted
         ELSE <<Head(sorted)>> \o InsertByPriority(Tail(sorted), h)

RECURSIVE SortByPriority(_)
SortByPriority(hooks) ==
    IF hooks = <<>> THEN <<>>
    ELSE InsertByPriority(SortByPriority(SubSeq(hooks, 1, Len(hooks) - 1)), hooks[Len(hooks)])

\* findIndex of setHook: hook.src == hookfunc.src && hook.type == hook.type
FindIndex(hooks, hookfunc) ==
    LET found == {n \in 1 .. Len(hooks) :
                    hooks[n].src = hookfunc.src /\ hooks[n].type = hooks[n].type}
    IN  IF found = {} THEN 0 ELSE CHOOSE n \in found : \A m \in found : n <= m

HookExecutor_setHook(hooks, hookfunc) ==
    LET index == FindIndex(hooks, hookfunc)
    IN  SortByPriority(IF index > 0 THEN [hooks EXCEPT ![index] = hookfunc]
                       ELSE Append(hooks, hookfunc))

\* delHooks compares this.hooks.src, a property the array does not have
HookExecutor_delHooks(hooks, signature) ==
    LET hooks_src == Undefined
    IN  IF hooks_src = Str(signature) THEN <<>> ELSE hooks

\* check / checkStrict
HookExecutor_check(hooks, catMask) ==
    \E n \in 1 .. Len(hooks) : BitAnd(catMask, hooks[n].cat) # 0

HookExecutor_checkStrict(hooks, catMask) ==
    \E n \in 1 .. Len(hooks) : catMask = hooks[n].cat

\* new HookExecutor(), and the table entry of a name that has none
HookExecutor(hooks) == [t |-> "HookExecutor", hooks |-> hooks]

IsExecutor(x) == x.t = "HookExecutor"

\* the for-in loop of __mergeHooksIntoTable on one chain: delHooks(sign), then
\* setHook of every function of the module whose type is the chain's name
RECURSIVE SetHooksOfType(_, _, _)
SetHooksOfType(chain, hooks, type) ==
    IF hooks = <<>> THEN chain
    ELSE SetHooksOfType(IF Head(hooks).type = type
                        THEN HookExecutor_setHook(chain, Head(hooks)) ELSE chain,
                        Tail(hooks), type)

\* while (hook = hooks.pop()): a new HookExecutor for each function left over
RECURSIVE PopRemaining(_, _)
PopRemaining(table, hooks) ==
    IF hooks = <<>> THEN table
    ELSE LET hook == hooks[Len(hooks)]
         IN  PopRemaining([table EXCEPT ![hook.type] =
                              HookExecutor(HookExecutor_setHook(<<>>, hook))],
                          SubSeq(hooks, 1, Len(hooks) - 1))

\* HookLoader.__mergeHooksIntoTable for one module mod whose basename is sign
mergeHooksIntoTable(table, mod, sign) ==
    LET hooks == getHooksFromModule(mod, sign)
        t1    == [n \in DOMAIN table |->
                    IF IsExecutor(table[n])
                    THEN HookExecutor(SetHooksOfType(
                             HookExecutor_delHooks(table[n].hooks, sign), hooks, n))
                    ELSE table[n]]
        left  == SelectSeq(hooks, LAMBDA h : ~IsExecutor(table[h.type]))
    IN  PopRemaining(t1, left)

(* hook.apply(context, args).  args is what HookExecutor.call holds in its   *)
(* parameter args: the array callHook collected, or, after a continuation    *)
(* re-entered call with ...args, the first element of that array.  apply     *)
(* throws a TypeError on a primitive that is not null or undefined and takes *)
(* the elements of an array (none from another object).                       *)
Arr(v) == [t |-> "array", v |-> v]
Obj(n) == [t |-> "object", n |-> n]

CanApply(args) == args.t \in {"array", "object", "undefined", "null"}

Applied(args) == IF args.t = "array" THEN args.v ELSE <<>>

\* ...args: whether the spread throws, and the first value it yields
CanSpread(args) == args.t \in {"array", "string"}

FirstOfSpread(args) ==
    IF args.t = "array"
    THEN IF args.v = <<>> THEN Undefined ELSE Head(args.v)
    ELSE IF args.v = "" THEN Undefined ELSE Str("char")

\* createContext(undefined, environment), with _compareFunc as callHook or
\* callHookStrict leave it; callback is dummy until an ASYNC function is met
createContext(strict) ==
    [_nextHook |-> 0, _lastResult |-> Undefined, strict |-> strict,
     callback |-> "dummy", cbArgs |-> Undefined]

\* what one invoked function saw: itself, the arguments applied, _lastResult
Ran(hook, args, ctx) ==
    [fn |-> hook, args |-> IF CanApply(args) THEN Applied(args) ELSE <<>>,
     applied |-> CanApply(args), lr |-> ctx._lastResult]

Returned_Stale(hook, ctx) == ctx._lastResult

Returned(hook, ctx) ==
    IF hook.ret = PassLast THEN ctx._lastResult
    ELSE IF hook.ret.t = "callsBack" THEN hook.ret.v
    ELSE hook.ret

(* HookExecutor.call from index i: the context when the loop is left, the    *)
(* functions invoked, and how it is left: "tick" (process.nextTick with the  *)
(* terminal callback), "suspended" (return in the ASYNC case) or "threw".    *)
(* An ASYNC body that calls this.callback(v) before it returns runs the      *)
(* continuation inside hook.apply: _lastResult = v and call(.., ...args).    *)
RECURSIVE HookExecutor_call(_, _, _, _, _, _)
HookExecutor_call(hooks, i, ctx, catMask, args, log) ==
    IF i >= Len(hooks) THEN [ctx |-> ctx, log |-> log, outcome |-> "tick"]
    ELSE
      LET hook == hooks[i + 1]
      IN  IF compareFunc(ctx.strict, hook.cat, catMask)
          THEN LET log1 == Append(log, Ran(hook, args, ctx))
                   fails == ~CanApply(args) \/ hook.ret = Throws
               IN  CASE hook.execPolicy = 0 ->
                          IF fails THEN [ctx |-> ctx, log |-> log1, outcome |-> "threw"]
                          ELSE HookExecutor_call(hooks, i + 1,
                                   [ctx EXCEPT !._lastResult = Returned(hook, ctx)],
                                   catMask, args, log1)
                     [] hook.execPolicy = 1 ->
                          IF fails THEN [ctx |-> ctx, log |-> log1, outcome |-> "threw"]
                          ELSE HookExecutor_call(hooks, i + 1, ctx, catMask, args, log1)
                     [] OTHER ->
                          LET c1 == [ctx EXCEPT !._nextHook = i + 1,
                                                !.callback = "continuation",
                                                !.cbArgs = args]
                              c2 == [c1 EXCEPT !._lastResult = hook.ret.v]
                          IN  IF fails
                              THEN [ctx |-> c1, log |-> log1, outcome |-> "threw"]
                              ELSE IF hook.ret.t # "callsBack"
                              THEN [ctx |-> c1, log |-> log1, outcome |-> "suspended"]
                              ELSE IF CanSpread(args)
                              THEN HookExecutor_call(hooks, i + 1, c2, catMask,
                                                     FirstOfSpread(args), log1)
                              ELSE [ctx |-> c2, log |-> log1, outcome |-> "threw"]
          ELSE HookExecutor_call(hooks, i + 1, ctx, catMask, args, log)

\* HookExecutor.callSync: ASYNC functions are not run
RECURSIVE HookExecutor_callSync(_, _, _, _, _, _)
HookExecutor_callSync(hooks, i, ctx, catMask, args, log) ==
    IF i >= Len(hooks) THEN [ctx |-> ctx, log |-> log, outcome |-> "returned"]
    ELSE
      LET hook == hooks[i + 1]
      IN  IF compareFunc(ctx.strict, hook.cat, catMask) /\ hook.execPolicy \in {0, 1}
          THEN LET log1 == Append(log, Ran(hook, args, ctx))
               IN  IF ~CanApply(args) \/ hook.ret = Throws
                   THEN [ctx |-> ctx, log |-> log1, outcome |-> "threw"]
                   ELSE HookExecutor_callSync(hooks, i + 1,
                            IF hook.execPolicy = 0
                            THEN [ctx EXCEPT !._lastResult = Returned(hook, ctx)] ELSE ctx,
                            catMask, args, log1)
          ELSE HookExecutor_callSync(hooks, i + 1, ctx, catMask, args, log)

\* HookExecutor.dispatch: every matching function in one pass
RECURSIVE HookExecutor_dispatch(_, _, _, _, _, _)
HookExecutor_dispatch(hooks, i, ctx, catMask, args, log) ==
    IF i >= Len(hooks) THEN [ctx |-> ctx, log |-> log, outcome |-> "returned"]
    ELSE
      LET hook == hooks[i + 1]
      IN  IF compareFunc(ctx.strict, hook.cat, catMask)
          THEN LET c0   == [ctx EXCEPT !._lastResult = Undefined]
                   c1   == IF hook.execPolicy = 2
                           THEN [c0 EXCEPT !.callback = "dummy", !._nextHook = i + 1]
                           ELSE c0
                   log1 == Append(log, Ran(hook, args, c1))
               IN  IF ~CanApply(args) \/ hook.ret = Throws
                   THEN [ctx |-> c1, log |-> log1, outcome |-> "threw"]
                   ELSE HookExecutor_dispatch(hooks, i + 1,
                            IF hook.execPolicy = 0
                            THEN [c1 EXCEPT !._lastResult = Returned(hook, c1)] ELSE c1,
                            catMask, args, log1)
          ELSE HookExecutor_dispatch(hooks, i + 1, ctx, catMask, args, log)

checkTarget_AnyChain(table, catMask, name, strict) == IsExecutor(table[name])

\* HookLoader.checkTarget(catMask, name, strict) as a condition: the undefined
\* it returns when there is no chain is falsy
checkTarget(table, catMask, name, strict) ==
    IF IsExecutor(table[name])
    THEN IF strict THEN HookExecutor_checkStrict(table[name].hooks, catMask)
         ELSE IF catMask = -1 THEN TRUE
         ELSE HookExecutor_check(table[name].hooks, catMask)
    ELSE FALSE

(***************************************************************************)
(* State.                                                                  *)
(***************************************************************************)
VARIABLES
    cache,          \* the ResponseCache (ServerInstance._cache)
    now,            \* Date.now()
    last,           \* the last direct cache call: its arguments and its result
    mru,            \* ids by recency of use (stor of a new id, live retv), latest first
    hooksTable,     \* the registry: hook name -> HookExecutor, or Undefined
    inv,            \* the CALL-mode invocation being followed
    lastrun,        \* the last callHookSync or runHook and what it did
    ticks,          \* the process.nextTick queue
    req,            \* the request being followed
    resp,           \* its ServerResponse
    pendingUploads, \* ServerInstance._pendingUploads
    config,         \* ServerInstance._config, with _tls
    instance,       \* the outcome of new ServerInstance(config), and of validate()
    watcher,        \* the closure of __runHookWatcher: changes, timeout, and what it did
    list            \* a LinkedList driven directly

cacheVars == <<cache, now, last, mru>>
hookVars == <<hooksTable, inv, lastrun, ticks>>
serverVars == <<req, resp, pendingUploads, config>>
sideVars == <<instance, watcher, list>>
vars == <<cache, now, last, mru, hooksTable, inv, lastrun, ticks, req, resp, pendingUploads,
         config, instance, watcher, list>>

\* the hook names looked up: the URI chains of the canonical host for the
\* targets of RequestUrls, its site-default chain, a manual target, and the
\* infrastructure hook
PageHook == CanonicalHost \o "$page"
QueryHook == CanonicalHost \o "$page?q=1"
DefaultHook == CanonicalHost \o "$"
ManualHook == "raw"
ChangedHook == "onHookModuleChanged"
HookNames == {PageHook, QueryHook, DefaultHook, ManualHook, ChangedHook}

\* nothing followed yet (of an invocation: log, the functions invoked; resumed,
\* the places in log of the functions whose continuation was called; delivered,
\* the values the terminal callback was called with; chain, the functions of
\* the chain when callHook was called)
NoInv == [active |-> FALSE, cb |-> "none", name |-> "", catMask |-> 0,
          ctx |-> createContext(FALSE), log |-> <<>>, continues |-> 0,
          resumed |-> <<>>, delivered |-> <<>>, threw |-> FALSE, chain |-> <<>>]
NoRun == [op |-> "none", name |-> "", catMask |-> 0, strict |-> FALSE, log |-> <<>>,
          outcome |-> "none", lastResult |-> Undefined, callback |-> "dummy",
          result |-> Undefined]
NoRequest == [phase |-> "none"]
NoResponse == [state |-> "none"]

\* inv and lastrun record what is observed of one invocation at a time: a
\* CALL-mode invocation is followed across reloads and clock ticks while a
\* continuation of it can still be called, and any invocation until the next
\* one is made
Followed(i) ==
    IF i.active /\ i.ctx.callback = "continuation" /\ i.continues < MaxContinues
    THEN i ELSE NoInv

\* a request and its response are followed until the request is answered or
\* given up and no continuation of its invocation can be called any more
StillServed ==
    \/ req.phase \in {"collecting", "failing", "hooks"}
    \/ inv.cb = "request" /\ Followed(inv) = inv

Forget ==
    /\ req' = IF StillServed THEN req ELSE NoRequest
    /\ resp' = IF StillServed THEN resp ELSE NoResponse
    /\ inv' = IF inv.cb = "request" THEN (IF StillServed THEN inv ELSE NoInv)
              ELSE Followed(inv)

HooksIdle ==
    /\ hooksTable = [n \in HookNames |-> Undefined]
    /\ inv = NoInv
    /\ lastrun = NoRun
    /\ ticks = <<>>

\* config.sites: one site, known under two host names; no "!" and no "*" site
Site == [t |-> "site", hosts |-> <<CanonicalHost, "www.foo.bar">>, category |-> "A"]
SiteHosts == {CanonicalHost, "www.foo.bar"}

\* the sites of the keys "!" and "*", of the categories B and C; they are
\* registered before Site and with the canonical host as their first name, so
\* that the chains and the cache ids of their requests are those of Site's
NoHostSite == [t |-> "site", hosts |-> <<CanonicalHost, "!">>, category |-> "B"]
AnyHostSite == [t |-> "site", hosts |-> <<CanonicalHost, "*">>, category |-> "C"]

\* config.sites after addSiteConfig of the fallback sites of keys and of Site
SitesWith(keys) ==
    [k \in SiteHosts \cup keys |->
        IF k \in SiteHosts THEN Site ELSE IF k = "!" THEN NoHostSite ELSE AnyHostSite]

\* config.sites is a plain object: a key it does not own is looked up in
\* Object.prototype
ObjectPrototypeKeys == {"constructor"}

config_sites(key) ==
    IF key \in DOMAIN config.sites THEN config.sites[key]
    ELSE IF key \in ObjectPrototypeKeys THEN [t |-> "function"]
    ELSE Undefined

\* TLS endpoints are running, plaintext connections are asked to upgrade
Tls == TRUE
PlaintextPolicy == "upgrade"

\* the configuration with _tls as start() left it
Configuration(tls, plaintextPolicy, sites) ==
    [tls |-> tls, plaintextPolicy |-> plaintextPolicy, sites |-> sites]

DefaultConfig == Configuration(Tls, PlaintextPolicy, SitesWith({}))

ServerIdle ==
    /\ req = NoRequest
    /\ resp = NoResponse
    /\ pendingUploads = 0
    /\ config = DefaultConfig

\* nothing constructed, no watcher started, no list driven
SideIdle ==
    /\ instance = Null
    /\ watcher = Null
    /\ list = Null

\* inputs of the cache driven directly: the descriptors with their sizes, and
\* the expiry times (0 is in the past as soon as the clock moves, MaxTime never)
Sizes == {200, 300, 600, 1100}
Stored == {<<Str("d200"), 200>>, <<Str("d300"), 300>>, <<Str("d600"), 600>>,
           <<Str("d1100"), 1100>>}
Expiries == {Num(0), Num(MaxTime)}

\* last: the call, and what it met (hit: "miss", "expired" or "live" for a retv;
\* evicted: the ids a stor dropped from the map)
NoCall == [op |-> "none", id |-> NULL, data |-> Undefined, size |-> 0, expires |-> NaN,
           result |-> Undefined, hit |-> "none", evicted |-> {}, seq |-> 0]

SeqRemove(s, e) == SelectSeq(s, LAMBDA y : y # e)

\* recency after a call that used `used` and left the keys `keys` in the map
Recency(old, used, keys) ==
    LET s == IF used = NULL THEN old ELSE <<used>> \o SeqRemove(old, used)
    IN  SelectSeq(s, LAMBDA y : y \in keys)

InitCache ==
    /\ cache = ResponseCache_new(CacheSizeLimit)
    /\ now = 0
    /\ last = NoCall
    /\ mru = <<>>
    /\ SideIdle
    /\ HooksIdle
    /\ ServerIdle

\* cache.stor(id, data, size, expires)
Stor(id, data, size, expires) ==
    LET c == ResponseCache_stor(cache, id, data, size, expires)
    IN  /\ cache' = c
        /\ last' = [op |-> "stor", id |-> id, data |-> data, size |-> size,
                    expires |-> expires, result |-> Undefined, hit |-> "none",
                    evicted |-> (ResponseCache_keys(cache) \cup {id}) \ ResponseCache_keys(c),
                    seq |-> 1 - last.seq]
        /\ mru' = Recency(mru, IF cache._map[id].t = "ResponseCacheItem" THEN NULL ELSE id,
                          ResponseCache_keys(c))
        /\ UNCHANGED <<sideVars, now, hookVars, serverVars>>

\* cache.retv(id)
Retv(id) ==
    LET r == ResponseCache_retv(cache, id, now)
        x == cache._map[id]
    IN  /\ cache' = r.cache
        /\ last' = [op |-> "retv", id |-> id, data |-> Undefined, size |-> 0,
                    expires |-> NaN, result |-> r.result,
                    hit |-> IF x.t # "ResponseCacheItem" THEN "miss"
                            ELSE IF NumLt(x.expire, Num(now)) THEN "expired" ELSE "live",
                    evicted |-> {}, seq |-> 1 - last.seq]
        /\ mru' = Recency(mru, IF r.result = Undefined THEN NULL ELSE id,
                          ResponseCache_keys(r.cache))
        /\ UNCHANGED <<sideVars, now, hookVars, serverVars>>

\* time passes
Tick ==
    /\ now < MaxTime
    /\ now' = now + 1
    /\ ticks = <<>>
    /\ Forget
    /\ UNCHANGED <<sideVars, cache, last, mru, hooksTable, lastrun, ticks, pendingUploads, config>>

NextCache ==
    \/ \E id \in CacheIds, d \in Stored, e \in Expiries : Stor(id, d[1], d[2], e)
    \/ \E id \in CacheIds : Retv(id)
    \/ Tick

SpecCache == InitCache /\ [][NextCache]_vars

(***************************************************************************)
(* The hook library driven directly: modules are loaded, chains are called. *)
(***************************************************************************)
\* Buffer.from(text, "utf8"); the texts used are ASCII, one byte a character
Buf(s) == [t |-> "buffer", v |-> s, length |-> Len(s)]

\* a response descriptor with the fields __handleHookResponse reads
Proto(status, data, entityTag, maxAge) ==
    [t |-> "object", status |-> status, data |-> data, dataType |-> Undefined,
     dataLength |-> Undefined, entityTag |-> entityTag, maxAge |-> maxAge,
     error |-> Undefined, manual |-> Undefined]

PageOk == Proto(Num(200), Str("hello"), Str("e1"), Num(300))
DefaultPage == Proto(Num(200), Buf("nothing"), Num(1), Num(600))

\* the hook files and the contents they may have when they are (re)loaded
ModuleFiles == {"a.hook.js", "b.hook.js", "c.hook.js"}

Module(priority, exports) == [priority |-> priority, exports |-> exports]

Catalogue ==
    [f \in ModuleFiles |->
        CASE f = "a.hook.js" ->
               {Module(Num(5), <<Export("A", Undefined, PageHook, Undefined, PageOk)>>),
                Module(Undefined,
                       <<Export("S", Letters(<<"B">>), PageHook, Undefined, PageOk)>>),
                Module(Undefined, <<>>)}
          [] f = "b.hook.js" ->
               {Module(Undefined,
                       <<Export("S", Undefined, DefaultHook, Num(5), DefaultPage),
                         Export("s", Letters(<<"a">>), PageHook, Undefined, PageOk)>>)}
          [] OTHER ->
               {Module(Num(1),
                       <<Export("E", Undefined, PageHook, Undefined, Undefined),
                         Export("S", Undefined, ChangedHook, Undefined, Undefined),
                         Export("S", Undefined, ManualHook, Undefined, Undefined)>>),
                Module(Num(1), <<Export("E", Undefined, PageHook, Undefined, Throws)>>)}]

\* masks and argument lists of the direct calls
Masks == {ALL_CATS, 1, 2}
HookArgs == [n \in HookNames |->
               IF n = DefaultHook
               THEN Arr(<<Str("page"), Obj("params"), Obj("headers"), Null>>)
               ELSE Arr(<<Obj("params"), Obj("headers"), Null>>)]

\* __mergeHooksIntoTable(modules, callhooks) for modules = [sign], the file's
\* content being mod, and callhooks = true, on the table the call methods read.
\* This is the call the watcher's timer callback is written to make; as written
\* it passes the table as an extra first argument, so the method is driven here
\* with the arguments its parameters name.
LoadModule(sign, mod) ==
    /\ ticks = <<>>
    /\ hooksTable' = mergeHooksIntoTable(hooksTable, mod, sign)
    /\ ticks' = Append(ticks, [kind |-> "changed", mod |-> sign])
    /\ Forget
    /\ lastrun' = NoRun
    /\ UNCHANGED <<sideVars, cacheVars, pendingUploads, config>>

InvAfter_Sync(base, r) ==
    [base EXCEPT !.ctx = r.ctx, !.log = r.log, !.threw = (r.outcome = "threw"),
                 !.delivered = IF r.outcome = "tick"
                               THEN Append(base.delivered, r.ctx._lastResult)
                               ELSE base.delivered]

\* the invocation after a run r of HookExecutor.call, and the tick it queued
InvAfter(base, r) ==
    [base EXCEPT !.ctx = r.ctx, !.log = r.log, !.threw = (r.outcome = "threw")]

TicksAfter(r) == IF r.outcome = "tick" THEN Append(ticks, [kind |-> "cb"]) ELSE ticks

StartCall_NoChainTicks(cb, catMask, name, strict, args) ==
    IF IsExecutor(hooksTable[name])
    THEN HookExecutor_call(hooksTable[name].hooks, 0, createContext(strict), catMask,
                           args, <<>>)
    ELSE [ctx |-> createContext(strict), log |-> <<>>, outcome |-> "tick"]

\* HookLoader.callHook / callHookStrict(catMask, name, cb, ...args); reading
\* .call of a name without chain is a TypeError
StartCall(cb, catMask, name, strict, args) ==
    LET base == [NoInv EXCEPT !.active = TRUE, !.cb = cb, !.name = name,
                              !.catMask = catMask, !.ctx = createContext(strict)]
    IN  IF IsExecutor(hooksTable[name])
        THEN HookExecutor_call(hooksTable[name].hooks, 0, base.ctx, catMask, args, <<>>)
        ELSE [ctx |-> base.ctx, log |-> <<>>, outcome |-> "threw"]

NewInv(cb, catMask, name, strict) ==
    [NoInv EXCEPT !.active = TRUE, !.cb = cb, !.name = name, !.catMask = catMask,
                  !.ctx = createContext(strict),
                  !.chain = IF IsExecutor(hooksTable[name]) THEN hooksTable[name].hooks
                            ELSE <<>>]

CallHook(catMask, name, strict, args) ==
    /\ ticks = <<>>
    /\ LET r == StartCall("user", catMask, name, strict, args)
       IN  /\ inv' = InvAfter(NewInv("user", catMask, name, strict), r)
           /\ ticks' = TicksAfter(r)
    /\ lastrun' = NoRun
    /\ UNCHANGED <<sideVars, hooksTable, cacheVars, serverVars>>

\* the ASYNC function logged at place k calls this.callback(value): the
\* continuation stored in the context sets _lastResult and re-enters call with
\* the arguments spread
Continue(k) ==
    /\ inv.active
    /\ inv.ctx.callback = "continuation"
    /\ inv.continues < MaxContinues
    /\ inv.log[k].fn.execPolicy = 2
    /\ inv.log[k].fn.ret # Throws
    /\ LET fn    == inv.log[k].fn
           c1    == [inv.ctx EXCEPT !._lastResult = Returned(fn, inv.ctx)]
           args  == inv.ctx.cbArgs
           r     == IF CanSpread(args)
                    THEN HookExecutor_call(hooksTable[inv.name].hooks, c1._nextHook, c1,
                                           inv.catMask, FirstOfSpread(args), inv.log)
                    ELSE [ctx |-> c1, log |-> inv.log, outcome |-> "threw"]
       IN  /\ inv' = [InvAfter(inv, r) EXCEPT !.continues = inv.continues + 1,
                                               !.resumed = Append(inv.resumed, k)]
           /\ ticks' = TicksAfter(r)
    /\ UNCHANGED <<sideVars, hooksTable, lastrun, cacheVars, serverVars>>

\* the tick of call fires: cb(context._lastResult), cb being the caller's
UserCallback ==
    /\ ticks # <<>>
    /\ Head(ticks).kind = "cb"
    /\ inv.cb = "user"
    /\ inv' = [inv EXCEPT !.delivered = Append(inv.delivered, inv.ctx._lastResult)]
    /\ ticks' = Tail(ticks)
    /\ UNCHANGED <<sideVars, hooksTable, lastrun, cacheVars, serverVars>>

\* what a callHookSync or runHook did
RunOf(op, catMask, name, r, result) ==
    [op |-> op, name |-> name, catMask |-> catMask, strict |-> r.ctx.strict,
     log |-> r.log, outcome |-> r.outcome, lastResult |-> r.ctx._lastResult,
     callback |-> r.ctx.callback, result |-> result]

runHook_AsCallSync(catMask, name, strict, args) ==
    IF IsExecutor(hooksTable[name])
    THEN RunOf("runHook", catMask, name,
               HookExecutor_callSync(hooksTable[name].hooks, 0, createContext(strict),
                                     catMask, args, <<>>),
               Undefined)
    ELSE RunOf("runHook", catMask, name,
               [ctx |-> createContext(strict), log |-> <<>>, outcome |-> "returned"],
               Undefined)

\* HookLoader.runHook / runHookStrict(catMask, name, ...args)
runHook(catMask, name, strict, args) ==
    IF IsExecutor(hooksTable[name])
    THEN RunOf("runHook", catMask, name,
               HookExecutor_dispatch(hooksTable[name].hooks, 0, createContext(strict),
                                     catMask, args, <<>>),
               Undefined)
    ELSE RunOf("runHook", catMask, name,
               [ctx |-> createContext(strict), log |-> <<>>, outcome |-> "returned"],
               Undefined)

\* the tick of __mergeHooksIntoTable fires: runHook("onHookModuleChanged", path)
ModuleChanged ==
    /\ ticks # <<>>
    /\ Head(ticks).kind = "changed"
    /\ lastrun' = runHook(ALL_CATS, ChangedHook, FALSE, Arr(<<Str(Head(ticks).mod)>>))
    /\ ticks' = Tail(ticks)
    /\ UNCHANGED <<sideVars, hooksTable, inv, cacheVars, serverVars>>

\* HookLoader.callHookSync(catMask, name, ...args): the value of callSync is
\* not returned
CallHookSync(catMask, name, args) ==
    /\ ticks = <<>>
    /\ lastrun' =
         IF IsExecutor(hooksTable[name])
         THEN RunOf("callHookSync", catMask, name,
                    HookExecutor_callSync(hooksTable[name].hooks, 0, createContext(FALSE),
                                          catMask, args, <<>>),
                    Undefined)
         ELSE RunOf("callHookSync", catMask, name,
                    [ctx |-> createContext(FALSE), log |-> <<>>, outcome |-> "threw"],
                    Undefined)
    /\ inv' = NoInv
    /\ UNCHANGED <<sideVars, hooksTable, ticks, cacheVars, serverVars>>

RunHook(catMask, name, strict, args) ==
    /\ ticks = <<>>
    /\ lastrun' = runHook(catMask, name, strict, args)
    /\ inv' = NoInv
    /\ UNCHANGED <<sideVars, hooksTable, ticks, cacheVars, serverVars>>

InitHooks ==
    /\ cache = ResponseCache_new(CacheSizeLimit)
    /\ now = 0
    /\ last = NoCall
    /\ mru = <<>>
    /\ SideIdle
    /\ HooksIdle
    /\ ServerIdle

NextHooks ==
    \/ \E f \in ModuleFiles : \E mod \in Catalogue[f] : LoadModule(f, mod)
    \/ \E m \in Masks, n \in HookNames, st \in BOOLEAN : CallHook(m, n, st, HookArgs[n])
    \/ \E k \in 1 .. Len(inv.log) : Continue(k)
    \/ UserCallback
    \/ ModuleChanged
    \/ \E m \in Masks, n \in HookNames : CallHookSync(m, n, HookArgs[n])
    \/ \E m \in Masks, n \in HookNames, st \in BOOLEAN : RunHook(m, n, st, HookArgs[n])

SpecHooks == InitHooks /\ [][NextHooks]_vars

(***************************************************************************)
(* One chain built from several modules: the chain of PageHook with a      *)
(* function of every calling type and of the categories A, B, AB and none, *)
(* and the module of the usage example, which exports a SYNC and an ASYNC  *)
(* function under one hook name.                                           *)
(***************************************************************************)
ChainFiles == {"s.hook.js", "e.hook.js", "x.hook.js", "n.hook.js", "example.hook.js"}

ChainCatalogue ==
    [f \in ChainFiles |->
        CASE f = "s.hook.js" ->
               {Module(Num(0), <<Export("S", Letters(<<"A">>), PageHook, Undefined,
                                        Str("sync"))>>)}
          [] f = "e.hook.js" ->
               {Module(Num(1), <<Export("E", Letters(<<"B">>), PageHook, Undefined,
                                        Str("event"))>>)}
          [] f = "x.hook.js" ->
               {Module(Num(2), <<Export("A", Letters(<<"A", "B">>), PageHook, Undefined,
                                        Str("async"))>>),
                Module(Num(2), <<Export("A", Letters(<<"A", "B">>), PageHook, Undefined,
                                        CallsBack(Str("async")))>>)}
          [] f = "n.hook.js" ->
               {Module(Num(3), <<Export("S", Undefined, PageHook, Undefined, PassLast)>>)}
          [] OTHER ->
               {Module(Num(4), <<Export("S", Undefined, PageHook, Undefined,
                                        Str("I'm a synchronous hook function.")),
                                 Export("A", Undefined, PageHook, Undefined,
                                        Str("I'm an asynchronous hook function."))>>)}]

\* the masks of the calls: every category, none, A and B
ChainMasks == {ALL_CATS, 0, 1, 2}

NextChain ==
    \/ \E f \in ChainFiles : \E mod \in ChainCatalogue[f] : LoadModule(f, mod)
    \/ ModuleChanged
    \/ \E m \in ChainMasks, st \in BOOLEAN : CallHook(m, PageHook, st, HookArgs[PageHook])
    \/ \E k \in 1 .. Len(inv.log) : Continue(k)
    \/ UserCallback
    \/ \E m \in ChainMasks : CallHookSync(m, PageHook, HookArgs[PageHook])
    \/ \E m \in ChainMasks, st \in BOOLEAN : RunHook(m, PageHook, st, HookArgs[PageHook])

SpecChain == InitHooks /\ [][NextChain]_vars

(***************************************************************************)
(* ServerInstance: configuration, the response and its rendering.          *)
(***************************************************************************)
\* config.uploadMaxUnitSize, config.uploadMaxStorage (bytes) and the number of
\* body chunks followed for one request
UploadMaxUnitSize == 2
UploadMaxStorage == 3
MaxChunks == 2

MsPerSecond == 1000

\* a ServerResponse nothing has been written to
OpenResponse ==
    [state |-> "open", statusCode |-> 200, body |-> Undefined, ETag |-> Undefined,
     CacheControl |-> Undefined, ContentType |-> Undefined, ContentLength |-> Undefined,
     Location |-> Undefined, Vary |-> Undefined, ends |-> 0,
     rendered |-> Undefined, stored |-> FALSE]

\* response.end(body)
End(rs, body) == [rs EXCEPT !.state = "ended", !.body = body, !.ends = rs.ends + 1]

\* errors.sendSimpleResponse(response, code): the status with a simple error
\* body for it
sendSimpleResponse(rs, code) ==
    End([rs EXCEPT !.statusCode = code], [t |-> "simple", code |-> code])

Stream == [t |-> "stream"]
Error == [t |-> "error"]

IsBytes(x) == x.t \in {"buffer", "uint8array"}

\* the descriptor once rendered: a string body has become a Buffer
Rendered(proto) ==
    IF proto.data.t = "string" THEN [proto EXCEPT !.data = Buf(proto.data.v)] ELSE proto

\* "max-age=" + maxAge + ", must-revalidate"
MaxAgeHeader(maxAge) == [t |-> "max-age", v |-> maxAge.v, revalidate |-> TRUE]

\* the ETag and Cache-Control headers of a descriptor with a string entityTag
SetTags(rs, proto) ==
    IF proto.entityTag.t = "string"
    THEN [rs EXCEPT !.ETag = proto.entityTag,
                    !.CacheControl = IF proto.maxAge.t = "number"
                                     THEN MaxAgeHeader(proto.maxAge) ELSE Undefined]
    ELSE rs

\* the Content-Type header
SetType(rs, proto) ==
    [rs EXCEPT !.ContentType = IF proto.dataType.t = "string" THEN proto.dataType
                               ELSE Str("application/octet-stream")]

\* the body by the kind of data, proto being the descriptor after a string body
\* was made a Buffer
WriteBody(rs, proto) ==
    IF IsBytes(proto.data)
    THEN End([rs EXCEPT !.ContentLength = Num(proto.data.length)], proto.data)
    ELSE IF proto.data.t = "stream"
    THEN [rs EXCEPT !.state = "piped", !.body = proto.data,
                    !.ContentLength = IF proto.dataLength.t = "number"
                                         /\ ~proto.dataLength.nan
                                         /\ proto.dataLength.v > 0
                                      THEN proto.dataLength ELSE Undefined]
    ELSE sendSimpleResponse([rs EXCEPT !.ContentType = Undefined, !.ETag = Undefined,
                                       !.CacheControl = Undefined],
                            proto.status.v)

\* cacheable when the response has been written: the entityTag is a string and
\* the body was neither a stream nor in an invalid format
Cacheable(proto) == proto.entityTag.t = "string" /\ IsBytes(proto.data)

\* what __handleHookResponse leaves: the cache, the response and the dispatch
\* run of manual mode
Handled(c, rs, run) == [cache |-> c, resp |-> rs, run |-> run]

\* if (cacheable) this._cache.stor(site.hosts[0] + "$" + request.url, ...)
StoreRendered(c, rs, url, proto) ==
    IF Cacheable(proto)
    THEN Handled(ResponseCache_stor(c, CanonicalHost \o "$" \o url, proto, proto.data.length,
                                    NumAdd(Num(now), NumMul(proto.maxAge, MsPerSecond))),
                 [rs EXCEPT !.stored = TRUE], NoRun)
    ELSE Handled(c, rs, NoRun)

\* the branch of a descriptor with a status in [100,600); rs has the status set
RenderData(c, rs, url, responseProto) ==
    IF Truthy(responseProto.data) \/ responseProto.data.t \in {"null", "undefined"}
    THEN StoreRendered(c, WriteBody(SetType(SetTags(rs, responseProto), responseProto),
                                    Rendered(responseProto)),
                       url, Rendered(responseProto))
    ELSE Handled(c, End(rs, Undefined), NoRun)

(* __handleHookResponse(request, response, site, target, error, responseProto) *)
(* on cache c, response rs and the request url.  rendered and stored of the   *)
(* response record what was handled and whether cache.stor was called.  The   *)
(* headers map of the descriptor and the X-GMetrics header are left out.      *)
handleHookResponse(c, rs, url, error, responseProto) ==
    IF Truthy(responseProto) THEN
      IF responseProto.error.t = "error" THEN
        Handled(c, sendSimpleResponse(rs, 500), NoRun)
      ELSE IF responseProto.status.t = "number" THEN
        IF ~responseProto.status.nan /\ responseProto.status.v >= 100
                                     /\ responseProto.status.v < 600
        THEN RenderData(c, [rs EXCEPT !.statusCode = responseProto.status.v], url,
                        responseProto)
        ELSE Handled(c, sendSimpleResponse(rs, 500), NoRun)
      ELSE IF responseProto.manual.t = "string" THEN
        IF responseProto.manual.v # ""
           /\ checkTarget(hooksTable, ALL_CATS, responseProto.manual.v, FALSE)
        THEN Handled(c, rs, runHook(ALL_CATS, responseProto.manual.v, FALSE,
                                    Arr(<<Obj("request"), Obj("response"), responseProto>>)))
        ELSE Handled(c, sendSimpleResponse(rs, 502), NoRun)
      ELSE Handled(c, rs, NoRun)
    ELSE IF error.t = "error" THEN Handled(c, sendSimpleResponse(rs, 502), NoRun)
    ELSE Handled(c, sendSimpleResponse(rs, 500), NoRun)

\* the response when __handleHookResponse is entered for descriptor d
Rendering(rs, d) == [rs EXCEPT !.rendered = d]

(***************************************************************************)
(* The renderer applied to descriptors: __handleHookResponse(request,       *)
(* response, site, target, null, d) for the descriptors d below.            *)
(***************************************************************************)
\* new ResponsePrototype(): status 0, data null, maxAge 300, the rest undefined
ResponsePrototype == Proto(Num(0), Null, Undefined, Num(300))

RenderStatus == {Undefined, Num(99), Num(200), Num(600)}
RenderBodies == {Str("hello"), Str(""), Buf("bytes"), Stream, Null, Num(7)}
RenderTags == {Str("e1"), Undefined}
RenderMaxAges == {Num(300), Undefined, Str("300")}

Descriptors ==
    {Proto(st, d, e, m) : st \in RenderStatus, d \in RenderBodies,
                          e \in RenderTags, m \in RenderMaxAges}
    \cup {[Proto(Undefined, Null, Undefined, Num(300)) EXCEPT !.manual = Str(m)] :
             m \in {ManualHook, QueryHook, ""}}
    \cup {[PageOk EXCEPT !.error = Error]}
    \cup {[ResponsePrototype EXCEPT !.manual = Str(ManualHook)]}

Render(url, d) ==
    /\ ticks = <<>>
    /\ \E h \in {handleHookResponse(cache, Rendering(OpenResponse, d), url, Null, d)} :
           /\ cache' = h.cache
           /\ resp' = h.resp
           /\ lastrun' = h.run
    /\ req' = [phase |-> "rendered", url |-> url]
    /\ UNCHANGED <<sideVars, now, last, mru, hooksTable, inv, ticks, pendingUploads, config>>

NextRender ==
    \/ \E mod \in Catalogue["c.hook.js"] : LoadModule("c.hook.js", mod)
    \/ ModuleChanged
    \/ \E d \in Descriptors : Render("/page", d)

SpecRender == InitHooks /\ [][NextRender]_vars

(***************************************************************************)
(* ServerInstance: the request dispatcher.  One request is followed at a   *)
(* time: the next one is taken up once no tick is pending.                 *)
(***************************************************************************)
Methods == {"GET", "HEAD", "POST", "OPTIONS", "PUT"}
Hosts == {Str(CanonicalHost), Str("www.foo.bar"), Str("nowhere"), Undefined, Str(""),
          Str("constructor")}
FormType == "application/x-www-form-urlencoded"

\* an incoming message
Message(m, u, h, sec, ui, cl, ct) ==
    [method |-> m, url |-> u, host |-> h, secure |-> sec, uir |-> ui,
     contentLength |-> cl, contentType |-> ct]

\* the messages without body: GET of every url, every method, every host, and
\* plaintext connections with and without the upgrade-insecure-requests header
GetRequests ==
    {Message("GET", u, Str(CanonicalHost), TRUE, Undefined, Undefined, "text/plain") :
        u \in RequestUrls}
    \cup {Message(m, "/page", Str(CanonicalHost), TRUE, Undefined, Undefined, "text/plain") :
            m \in Methods \ {"POST"}}
    \cup {Message("GET", "/page", h, TRUE, Undefined, Undefined, "text/plain") : h \in Hosts}
    \cup {Message(m, "/page", Str(CanonicalHost), FALSE, ui, Undefined, "text/plain") :
            m \in {"GET", "PUT"}, ui \in {Undefined, Str("1")}}

\* the messages with a body
PostRequests ==
    {Message("POST", "/page?q=1", Str(CanonicalHost), TRUE, Undefined, cl, ct) :
        cl \in {Undefined, Str("1"), Str("9")}, ct \in {FormType, "text/plain"}}

\* parseInt of the Content-Length values above
parseInt(x) == IF x.v = "1" THEN 1 ELSE IF x.v = "3" THEN 3 ELSE 9

\* url.parse(request.url).path.substr(1), for the urls above
Targets == {"", "page", "page?q=1"}
TargetOf(u) == CHOOSE t \in Targets : "/" \o t = u

\* an object with the own properties own
Params(own) == [t |-> "object", n |-> "params", own |-> own]

\* url.parse(request.url, true).query, for the urls above
QueryOf(u) == IF u = "/page?q=1" THEN [k \in {"q"} |-> Str("1")] ELSE [k \in {} |-> Null]

\* the text of a form body of which len characters have arrived: "q=2&..."
FormText(len) ==
    CASE len = 0 -> "" [] len = 1 -> "q" [] len = 2 -> "q=" [] len = 3 -> "q=2"
      [] OTHER -> "q=2&"

UrlKeys == {"protocol", "slashes", "auth", "host", "port", "hostname", "hash", "search",
            "query", "pathname", "path", "href"}

\* url.parse("?" + data): without the second argument the result is a Url
\* object whose query is the text after the "?", not a map of parameters
url_parse(data) ==
    Params([k \in UrlKeys |->
               IF k \in {"search", "path", "href"} THEN Str("?" \o data)
               ELSE IF k = "query" THEN Str(data)
               ELSE Null])

\* for (var i in params2) params[i] = params2[i]
MergeParams(params, params2) ==
    [params EXCEPT !.own = [i \in DOMAIN params.own \cup DOMAIN params2 |->
                               IF i \in DOMAIN params2 THEN params2[i]
                               ELSE params.own[i]]]

\* the params of __runExternalRequestHandler after its first lines
ParamsFor(u, params) ==
    IF Truthy(params) THEN MergeParams(params, QueryOf(u)) ELSE Params(QueryOf(u))

\* ServerInstance.__matchSiteForHost
matchSiteForHost(host) ==
    IF host.t # "string" \/ host.v = ""
    THEN IF Truthy(config_sites("!")) THEN config_sites("!") ELSE config_sites("*")
    ELSE IF Truthy(config_sites(host.v)) THEN config_sites(host.v) ELSE config_sites("*")

\* the request followed, from the incoming message r
Incoming(r) ==
    [phase |-> "new", method |-> r.method, url |-> r.url, host |-> r.host,
     secure |-> r.secure, uir |-> r.uir, contentLength |-> r.contentLength,
     contentType |-> r.contentType, site |-> Undefined, outcome |-> "none",
     chunks |-> 0, dlen |-> 0, events |-> {}]

\* what __runExternalRequestHandler leaves: h of the cache and the response,
\* the invocation, the ticks, and the phase and outcome of the request
Ran4(h, i, tk, phase, outcome) ==
    [cache |-> h.cache, resp |-> h.resp, run |-> h.run, inv |-> i, ticks |-> tk,
     phase |-> phase, outcome |-> outcome]

\* this._iface.callHook(catmask, name, <bound __handleHookResponse>, ...args),
\* r being the run of HookExecutor.call it makes
Called(c, rs, catmask, name, r, outcome) ==
    Ran4(Handled(c, rs, NoRun), InvAfter(NewInv("request", catmask, name, FALSE), r),
         TicksAfter(r), IF r.outcome = "threw" THEN "threw" ELSE "hooks", outcome)

\* the else branch of the cache lookup: URI hook, generic hook or 404
RunHooks(c, rs, hosts0, target, catmask, params, data) ==
    IF target # "" /\ checkTarget(hooksTable, catmask, hosts0 \o "$" \o target, FALSE)
    THEN Called(c, rs, catmask, hosts0 \o "$" \o target,
                StartCall("request", catmask, hosts0 \o "$" \o target, FALSE,
                          Arr(<<params, Obj("headers"), data>>)),
                "uri")
    ELSE IF checkTarget(hooksTable, catmask, hosts0 \o "$", FALSE)
    THEN Called(c, rs, catmask, hosts0 \o "$",
                StartCall("request", catmask, hosts0 \o "$", FALSE,
                          Arr(<<Str(target), params, Obj("headers"), data>>)),
                "default")
    ELSE Ran4(Handled(c, sendSimpleResponse(rs, 404), NoRun), NoInv, ticks, "done", "404")

\* the cache lookup, found being what this._cache.retv(rid) left and returned
Looked(found, rs, rq, site, data, params) ==
    IF Truthy(found.result)
    THEN Ran4(handleHookResponse(found.cache, Rendering(rs, found.result), rq.url, Null,
                                 found.result),
              NoInv, ticks, "done", "cache")
    ELSE RunHooks(found.cache, rs, site.hosts[1], TargetOf(rq.url),
                  Pow2(LetterCode[site.category]),
                  ParamsFor(rq.url, params), data)

(* __runExternalRequestHandler(request, response, site, data, params); params *)
(* is the map of the query when the body gave none.  A site that is no      *)
(* HostedSiteConfig has no category: site.category.toUpperCase() throws.     *)
runExternalRequestHandler(rq, rs, site, data, params) ==
    IF site.t # "site"
    THEN Ran4(Handled(cache, rs, NoRun), NoInv, ticks, "threw", "none")
    ELSE Looked(ResponseCache_retv(cache, site.hosts[1] \o "$" \o rq.url, now),
                rs, rq, site, data, params)

\* the state after __runExternalRequestHandler for request rq
Dispatched(rq, data, params) ==
    \E x \in {runExternalRequestHandler(rq, OpenResponse, rq.site, data, params)} :
        /\ cache' = x.cache
        /\ resp' = x.resp
        /\ lastrun' = x.run
        /\ inv' = x.inv
        /\ ticks' = x.ticks
        /\ req' = [rq EXCEPT !.phase = x.phase, !.outcome = x.outcome]

\* what is left alone when no hook and no cache is reached
Answered(rq, rs, phase) ==
    /\ req' = [rq EXCEPT !.phase = phase]
    /\ resp' = rs
    /\ inv' = NoInv
    /\ lastrun' = NoRun
    /\ UNCHANGED <<sideVars, cache, ticks>>

PlaintextRedirect_AnyPolicy(r) == config.tls /\ ~r.secure /\ r.uir = Str("1")

\* the condition of the redirect to https in __requestHandler
PlaintextRedirect(r) ==
    /\ config.tls
    /\ ~r.secure
    /\ \/ r.uir = Str("1") /\ config.plaintextPolicy = "upgrade"
       \/ config.plaintextPolicy = "reject"

PreliminaryReject_ByStorage(size) == size > 0 /\ size > UploadMaxStorage

\* the preliminary reject by Content-Length in __requestDataHandler
PreliminaryReject(size) == size > 0 /\ size > UploadMaxUnitSize

\* ServerInstance.__requestHandler(request, response), with the part of
\* __requestDataHandler that runs in it for a POST
RequestHandler(r) ==
    LET site == matchSiteForHost(r.host)
        rq   == [Incoming(r) EXCEPT !.site = site]
        size == IF Truthy(r.contentLength) THEN parseInt(r.contentLength) ELSE -1
    IN
    /\ ticks = <<>>
    /\ IF PlaintextRedirect(r)
       THEN Answered(Incoming(r), End([OpenResponse EXCEPT
                                 !.statusCode = IF r.method \in {"GET", "HEAD"}
                                                THEN 301 ELSE 308,
                                 !.Location = [scheme |-> "https", host |-> r.host,
                                               url |-> r.url],
                                 !.Vary = Str("Upgrade-Insecure-Requests"),
                                 !.ContentType = Str("text/html")],
                                [t |-> "link", host |-> r.host, url |-> r.url]),
                     "done")
       ELSE IF Truthy(site)
       THEN CASE r.method \in {"GET", "HEAD"} -> Dispatched(rq, Null, Undefined)
              [] r.method = "POST" ->
                   IF PreliminaryReject(size)
                   THEN Answered(rq, sendSimpleResponse(OpenResponse, 406), "destroyed")
                   ELSE Answered(rq, OpenResponse, "collecting")
              [] r.method = "OPTIONS" -> Answered(rq, OpenResponse, "ignored")
              [] OTHER -> Answered(rq, sendSimpleResponse(OpenResponse, 405), "done")
       ELSE Answered(rq, [OpenResponse EXCEPT !.state = "destroyed"], "done")
    /\ UNCHANGED <<sideVars, now, last, mru, hooksTable, pendingUploads, config>>

OnData_NoLimit(rq, pending, len) ==
    [req |-> [rq EXCEPT !.dlen = rq.dlen + len, !.chunks = rq.chunks + 1],
     pending |-> pending + len]

\* the "data" handler of __requestDataHandler on a chunk of length len, for
\* request rq and this._pendingUploads = pending: request.destroy(error) when
\* the chunk would pass uploadMaxStorage, else the chunk is accumulated
OnData(rq, pending, len) ==
    IF pending + len > UploadMaxStorage
    THEN [req |-> [rq EXCEPT !.phase = "failing", !.chunks = rq.chunks + 1],
          pending |-> pending]
    ELSE [req |-> [rq EXCEPT !.dlen = rq.dlen + len, !.chunks = rq.chunks + 1],
          pending |-> pending + len]

\* request.on("data", chunk) of __requestDataHandler, chunk.length = len
RequestData(len) ==
    /\ ticks = <<>>
    /\ req.phase = "collecting"
    /\ req.chunks < MaxChunks
    /\ req' = OnData(req, pendingUploads, len).req
    /\ pendingUploads' = OnData(req, pendingUploads, len).pending
    /\ UNCHANGED <<sideVars, cacheVars, hookVars, resp, config>>

\* request.on("end"): the body is complete
RequestEnd ==
    /\ ticks = <<>>
    /\ req.phase = "collecting"
    /\ pendingUploads' = pendingUploads - req.dlen
    /\ IF req.contentType = FormType
       THEN Dispatched(req, Null, url_parse(FormText(req.dlen)))
       ELSE Dispatched(req, [t |-> "buffer", v |-> "body", length |-> req.dlen], Undefined)
    /\ UNCHANGED <<sideVars, now, last, mru, hooksTable, config>>

\* request.on("error"): after request.destroy(error), or an error of the socket
RequestError ==
    /\ ticks = <<>>
    /\ req.phase \in {"collecting", "failing"}
    /\ resp' = sendSimpleResponse(resp, 406)
    /\ pendingUploads' = pendingUploads - req.dlen
    /\ req' = [req EXCEPT !.phase = "done"]
    /\ UNCHANGED <<sideVars, cacheVars, hookVars, config>>

\* request.on("aborted"): the client went away
RequestAborted ==
    /\ ticks = <<>>
    /\ req.phase = "collecting"
    /\ resp' = sendSimpleResponse(resp, 500)
    /\ pendingUploads' = pendingUploads - req.dlen
    /\ req' = [req EXCEPT !.phase = "done"]
    /\ UNCHANGED <<sideVars, cacheVars, hookVars, config>>

\* the tick of call fires for a request: cb is __handleHookResponse bound to
\* (request, response, site, target), so cb(context._lastResult) passes the
\* last result as error and leaves responseProto undefined
RequestCallback ==
    /\ ticks # <<>>
    /\ Head(ticks).kind = "cb"
    /\ inv.cb = "request"
    /\ \E h \in {handleHookResponse(cache, Rendering(resp, Undefined), req.url,
                                    inv.ctx._lastResult, Undefined)} :
           /\ cache' = h.cache
           /\ resp' = h.resp
           /\ lastrun' = h.run
    /\ inv' = [inv EXCEPT !.delivered = Append(inv.delivered, inv.ctx._lastResult)]
    /\ req' = [req EXCEPT !.phase = "done"]
    /\ ticks' = Tail(ticks)
    /\ UNCHANGED <<sideVars, now, last, mru, hooksTable, pendingUploads, config>>

\* the cache as earlier renderings of /page have left it: empty, or holding the
\* rendered PageOk with an expiry that passes as soon as the clock moves
CachedPage ==
    ResponseCache_stor(ResponseCache_new(CacheSizeLimit), CanonicalHost \o "$/page",
                       Rendered(PageOk), Rendered(PageOk).data.length, Num(0))

\* the hook files of the served directory
ServerModules == {"a.hook.js", "b.hook.js"}

InitServer ==
    /\ cache \in {ResponseCache_new(CacheSizeLimit), CachedPage}
    /\ now = 0
    /\ last = NoCall
    /\ mru = <<>>
    /\ SideIdle
    /\ HooksIdle
    /\ ServerIdle

NextServer ==
    \/ \E f \in ServerModules : \E mod \in Catalogue[f] : LoadModule(f, mod)
    \/ ModuleChanged
    \/ \E r \in GetRequests \cup PostRequests : RequestHandler(r)
    \/ \E len \in 1 .. 2 : RequestData(len)
    \/ RequestEnd
    \/ RequestError
    \/ RequestAborted
    \/ \E k \in 1 .. Len(inv.log) : Continue(k)
    \/ RequestCallback
    \/ Tick

SpecServer == InitServer /\ [][NextServer]_vars

\* the dispatcher with a client that delivers the whole body, ASYNC functions
\* that call their continuation, and a tick queue that is run; whether another
\* request arrives, a file changes or the clock moves is left open
SpecServerFair ==
    /\ SpecServer
    /\ WF_vars(RequestEnd)
    /\ WF_vars(RequestError)
    /\ WF_vars(RequestCallback)
    /\ WF_vars(ModuleChanged)
    /\ WF_vars(\E k \in 1 .. Len(inv.log) : Continue(k))

(***************************************************************************)
(* The front of the dispatcher under every configuration: the plaintext    *)
(* policies with and without TLS endpoints, the fallback sites "!" and "*" *)
(* configured or not, and requests of every method, host, connection and   *)
(* Content-Length.  The hook file is b.hook.js.                             *)
(***************************************************************************)
PlaintextPolicies == {"none", "upgrade", "reject"}

Configs ==
    {Configuration(tls, p, SitesWith(k)) :
        tls \in BOOLEAN, p \in PlaintextPolicies, k \in SUBSET {"!", "*"}}

\* every host; every method on a site and on no site; plaintext and TLS
\* connections with every value of upgrade-insecure-requests; bodies of every
\* Content-Length
FrontRequests ==
    {Message("GET", "/page", h, TRUE, Undefined, Undefined, "text/plain") : h \in Hosts}
    \cup {Message(m, "/page", h, TRUE, Undefined, Undefined, "text/plain") :
            m \in Methods, h \in {Str(CanonicalHost), Str("nowhere")}}
    \cup {Message(m, "/page", Str(CanonicalHost), sec, ui, Undefined, "text/plain") :
            m \in {"GET", "POST", "PUT"}, sec \in BOOLEAN,
            ui \in {Undefined, Str("1"), Str("0")}}
    \cup {Message("POST", "/page", Str(CanonicalHost), TRUE, Undefined, cl, ct) :
            cl \in {Str("1"), Str("3"), Str("9")}, ct \in {FormType, "text/plain"}}

FrontModules == {"b.hook.js"}

InitFront ==
    /\ cache = ResponseCache_new(CacheSizeLimit)
    /\ now = 0
    /\ last = NoCall
    /\ mru = <<>>
    /\ SideIdle
    /\ HooksIdle
    /\ req = NoRequest
    /\ resp = NoResponse
    /\ pendingUploads = 0
    /\ config \in Configs

NextFront ==
    \/ \E f \in FrontModules : \E mod \in Catalogue[f] : LoadModule(f, mod)
    \/ ModuleChanged
    \/ \E r \in FrontRequests : RequestHandler(r)
    \/ \E len \in 1 .. 2 : RequestData(len)
    \/ RequestEnd
    \/ RequestError
    \/ RequestAborted
    \/ RequestCallback

SpecFront == InitFront /\ [][NextFront]_vars

(***************************************************************************)
(* Concurrent uploads: several POST requests are in body collection at the *)
(* same time, their chunks interleaved in any order.  Here req and resp    *)
(* map each connection to its request and response.  The served directory  *)
(* holds b.hook.js, loaded by the constructor; a tick queued by callHook    *)
(* fires before the next event of any connection.                          *)
(***************************************************************************)
Connections == {"k1", "k2"}

\* the table after the constructor has merged b.hook.js (callhooks = false)
LoadedTable ==
    mergeHooksIntoTable([n \in HookNames |-> Undefined],
                        CHOOSE mod \in Catalogue["b.hook.js"] : TRUE, "b.hook.js")

\* the connection is free for a next request
Free(k) == req[k].phase \in {"none", "done", "destroyed", "threw"}

\* __requestHandler for a POST r that is not redirected and whose site
\* resolves, with the part of __requestDataHandler that runs in it
UploadRequest(k, r) ==
    /\ ticks = <<>>
    /\ Free(k)
    /\ ~PlaintextRedirect(r)
    /\ Truthy(matchSiteForHost(r.host))
    /\ r.method = "POST"
    /\ LET rq   == [Incoming(r) EXCEPT !.site = matchSiteForHost(r.host)]
           size == IF Truthy(r.contentLength) THEN parseInt(r.contentLength) ELSE -1
       IN  IF PreliminaryReject(size)
           THEN /\ req' = [req EXCEPT ![k] = [rq EXCEPT !.phase = "destroyed"]]
                /\ resp' = [resp EXCEPT ![k] = sendSimpleResponse(OpenResponse, 406)]
           ELSE /\ req' = [req EXCEPT ![k] = [rq EXCEPT !.phase = "collecting"]]
                /\ resp' = [resp EXCEPT ![k] = OpenResponse]
    /\ UNCHANGED <<sideVars, cacheVars, hookVars, pendingUploads, config>>

\* request.on("data", chunk) of connection k
UploadData(k, len) ==
    /\ ticks = <<>>
    /\ req[k].phase = "collecting"
    /\ req[k].chunks < MaxChunks
    /\ req' = [req EXCEPT ![k] = OnData(req[k], pendingUploads, len).req]
    /\ pendingUploads' = OnData(req[k], pendingUploads, len).pending
    /\ UNCHANGED <<sideVars, cacheVars, hookVars, resp, config>>

\* request.on("end") of connection k
UploadEnd(k) ==
    /\ ticks = <<>>
    /\ req[k].phase = "collecting"
    /\ pendingUploads' = pendingUploads - req[k].dlen
    /\ \E x \in {IF req[k].contentType = FormType
                  THEN runExternalRequestHandler(req[k], OpenResponse, req[k].site, Null,
                                                 url_parse(FormText(req[k].dlen)))
                  ELSE runExternalRequestHandler(req[k], OpenResponse, req[k].site,
                           [t |-> "buffer", v |-> "body", length |-> req[k].dlen],
                           Undefined)} :
           /\ cache' = x.cache
           /\ resp' = [resp EXCEPT ![k] = x.resp]
           /\ lastrun' = x.run
           /\ inv' = x.inv
           /\ ticks' = x.ticks
           /\ req' = [req EXCEPT ![k] = [req[k] EXCEPT !.phase = x.phase,
                                                       !.outcome = x.outcome,
                                                       !.events = @ \cup {"end"}]]
    /\ UNCHANGED <<sideVars, now, last, mru, hooksTable, config>>

\* request.on("error") of connection k
UploadError(k) ==
    /\ ticks = <<>>
    /\ req[k].phase \in {"collecting", "failing"}
    /\ resp' = [resp EXCEPT ![k] = sendSimpleResponse(resp[k], 406)]
    /\ pendingUploads' = pendingUploads - req[k].dlen
    /\ req' = [req EXCEPT ![k] = [req[k] EXCEPT !.phase = "done",
                                                !.events = @ \cup {"error"}]]
    /\ UNCHANGED <<sideVars, cacheVars, hookVars, config>>

\* request.on("aborted") of connection k
UploadAborted(k) ==
    /\ ticks = <<>>
    /\ req[k].phase = "collecting"
    /\ resp' = [resp EXCEPT ![k] = sendSimpleResponse(resp[k], 500)]
    /\ pendingUploads' = pendingUploads - req[k].dlen
    /\ req' = [req EXCEPT ![k] = [req[k] EXCEPT !.phase = "done",
                                                !.events = @ \cup {"aborted"}]]
    /\ UNCHANGED <<sideVars, cacheVars, hookVars, config>>

\* the tick of call fires for the request of connection k
UploadCallback(k) ==
    /\ ticks # <<>>
    /\ Head(ticks).kind = "cb"
    /\ req[k].phase = "hooks"
    /\ \E h \in {handleHookResponse(cache, Rendering(resp[k], Undefined), req[k].url,
                                    inv.ctx._lastResult, Undefined)} :
           /\ cache' = h.cache
           /\ resp' = [resp EXCEPT ![k] = h.resp]
           /\ lastrun' = h.run
    /\ inv' = [inv EXCEPT !.delivered = Append(inv.delivered, inv.ctx._lastResult)]
    /\ req' = [req EXCEPT ![k] = [req[k] EXCEPT !.phase = "done"]]
    /\ ticks' = Tail(ticks)
    /\ UNCHANGED <<sideVars, now, last, mru, hooksTable, pendingUploads, config>>

InitUploads ==
    /\ cache = ResponseCache_new(CacheSizeLimit)
    /\ now = 0
    /\ last = NoCall
    /\ mru = <<>>
    /\ SideIdle
    /\ hooksTable = LoadedTable
    /\ inv = NoInv
    /\ lastrun = NoRun
    /\ ticks = <<>>
    /\ req = [k \in Connections |-> NoRequest]
    /\ resp = [k \in Connections |-> NoResponse]
    /\ pendingUploads = 0
    /\ config = DefaultConfig

NextUploads ==
    \/ \E k \in Connections : \E r \in PostRequests : UploadRequest(k, r)
    \/ \E k \in Connections : \E len \in 1 .. 2 : UploadData(k, len)
    \/ \E k \in Connections : UploadEnd(k)
    \/ \E k \in Connections : UploadError(k)
    \/ \E k \in Connections : UploadAborted(k)
    \/ \E k \in Connections : UploadCallback(k)

SpecUploads == InitUploads /\ [][NextUploads]_vars

(***************************************************************************)
(* The same uploads with the events of a request in every order the        *)
(* handlers can see: "aborted" may follow "end" or "error", and "error"    *)
(* may follow "aborted".  The handlers stay registered and their dlen is   *)
(* the one the data handler left.                                          *)
(***************************************************************************)
\* request.on("aborted") of connection k, after its "end" or "error"
UploadAbortedLate(k) ==
    /\ ticks = <<>>
    /\ req[k].phase \in {"hooks", "done", "threw"}
    /\ req[k].events \cap {"end", "error"} # {}
    /\ "aborted" \notin req[k].events
    /\ pendingUploads >= 0
    /\ resp' = [resp EXCEPT ![k] = sendSimpleResponse(resp[k], 500)]
    /\ pendingUploads' = pendingUploads - req[k].dlen
    /\ req' = [req EXCEPT ![k] = [req[k] EXCEPT !.events = @ \cup {"aborted"}]]
    /\ UNCHANGED <<sideVars, cacheVars, hookVars, config>>

\* request.on("error") of connection k, after its "aborted"
UploadErrorLate(k) ==
    /\ ticks = <<>>
    /\ req[k].phase = "done"
    /\ "aborted" \in req[k].events
    /\ req[k].events \cap {"end", "error"} = {}
    /\ pendingUploads >= 0
    /\ resp' = [resp EXCEPT ![k] = sendSimpleResponse(resp[k], 406)]
    /\ pendingUploads' = pendingUploads - req[k].dlen
    /\ req' = [req EXCEPT ![k] = [req[k] EXCEPT !.events = @ \cup {"error"}]]
    /\ UNCHANGED <<sideVars, cacheVars, hookVars, config>>

\* the POST requests without a Content-Length
ChunkedPosts == {r \in PostRequests : r.contentLength = Undefined /\ r.contentType = FormType}

NextAborts ==
    \/ \E k \in Connections : \E r \in ChunkedPosts : UploadRequest(k, r)
    \/ \E k \in Connections : \E len \in 1 .. 2 : UploadData(k, len)
    \/ \E k \in Connections : UploadEnd(k)
    \/ \E k \in Connections : UploadError(k)
    \/ \E k \in Connections : UploadAborted(k)
    \/ \E k \in Connections : UploadAbortedLate(k)
    \/ \E k \in Connections : UploadErrorLate(k)
    \/ \E k \in Connections : UploadCallback(k)

SpecAborts == InitUploads /\ [][NextAborts]_vars

(***************************************************************************)
(* Claims on ResponseCache, checked under SpecCache.                       *)
(***************************************************************************)
IsStorStep == last'.seq # last.seq /\ last'.op = "stor"
IsRetvStep == last'.seq # last.seq /\ last'.op = "retv"
InSeq(e, s) == \E n \in 1 .. Len(s) : s[n] = e

\* C2: cache.size is the sum of the sizes of the entries in the map, and that
\* sum is at most sizeLimit.
C2_SizeIsSumWithinLimit ==
    /\ cache.size = SumSizes(cache, ResponseCache_keys(cache))
    /\ cache.size <= cache.sizeLimit

\* three entries that fill the cache to its limit
C2_Witness ==
    /\ Cardinality(ResponseCache_keys(cache)) = 3
    /\ cache.size = cache.sizeLimit

\* C3: after stor(k, d, s, e) an immediately following retv(k) at a time t < e
\* returns d and leaves k at the head of the LRU list; stated here for the sizes
\* s <= sizeLimit, which fit the cache.
C3_StorThenRetvHits ==
    [][(/\ last.op = "stor"
        /\ last.size <= cache.sizeLimit
        /\ IsRetvStep
        /\ last'.id = last.id
        /\ NumLt(Num(now), last.expires))
       => (last'.result = last.data /\ LinkedList_head(cache'._lru) = last.id)]_vars

\* C4: retv(k) on an entry whose expiry is earlier than the current time
\* reports absent, removes the entry from the map and from the LRU list and
\* decreases cache.size by the entry's size; retv(k) on an absent k reports
\* absent and changes nothing, and no retv brings a key back.
C4_ExpiredRetvPurges ==
    [][IsRetvStep =>
        LET k == last'.id
            x == cache._map[k]
        IN  /\ (x.t = "ResponseCacheItem" /\ NumLt(x.expire, Num(now)))
                => /\ last'.result = Undefined
                   /\ cache'._map[k] = NoItem
                   /\ ~InSeq(k, LinkedList_values(cache'._lru))
                   /\ cache'.size = cache.size - x.size
                   /\ \A j \in Ids \ {k} : cache'._map[j] = cache._map[j]
            /\ x = NoItem => (last'.result = Undefined /\ cache' = cache)
            /\ \A j \in Ids : cache._map[j] = NoItem => cache'._map[j] = NoItem]_vars

\* an expired entry was purged by retv while other entries stay
C4_Witness ==
    /\ last.op = "retv"
    /\ last.hit = "expired"
    /\ cache.size > 0

\* C5: when a stor makes cache.size exceed sizeLimit, the entries dropped are
\* the least recently used ones (use: stor of a new id, live retv), whatever
\* their expiry, and no more of them than needed to reach size <= sizeLimit.
C5_EvictsLeastRecentOnly ==
    [][IsStorStep =>
        LET k     == last'.id
            order == IF cache._map[k].t = "ResponseCacheItem" THEN mru ELSE <<k>> \o mru
            kept  == ResponseCache_keys(cache')
            sz(i) == IF i = k THEN last'.size ELSE cache._map[i].size
            gone  == {n \in 1 .. Len(order) : order[n] \notin kept}
        IN  /\ \A n \in gone : \A m \in n .. Len(order) : m \in gone
            /\ cache'.size <= cache.sizeLimit
            /\ gone # {} =>
                 LET f == CHOOSE n \in gone : \A m \in gone : n <= m
                 IN  cache'.size + sz(order[f]) > cache.sizeLimit]_vars

\* limit 1000: after (A,600), (B,300), (C,200) only A was evicted
C5_Witness ==
    /\ last.op = "stor" /\ last.id = "C" /\ last.size = 200
    /\ last.evicted = {"A"}
    /\ ResponseCache_keys(cache) = {"B", "C"}
    /\ cache._map["B"].size = 300
    /\ cache.size = 500

\* C6: stor(k, ...) on a key that is present updates descriptor, size and
\* expiry and moves k to the head of the LRU list (stated for the calls that
\* leave k in the cache).
C6_StorOnPresentKeyMovesToHead ==
    [][(/\ IsStorStep
        /\ cache._map[last'.id].t = "ResponseCacheItem"
        /\ cache'._map[last'.id].t = "ResponseCacheItem")
       => /\ cache'._map[last'.id] =
                ResponseCacheItem(last'.data, last'.size, last'.expires)
          /\ LinkedList_head(cache'._lru) = last'.id]_vars


(***************************************************************************)
(* Claims on the hook library, checked under SpecHooks.                    *)
(***************************************************************************)
InPriorityOrder(log) ==
    \A i, j \in 1 .. Len(log) : i < j => log[i].fn.priority <= log[j].fn.priority

\* C9: in every chain invocation (call, callSync, dispatch) the functions that
\* match the mask are invoked in non-decreasing order of priority: none is
\* invoked after one of strictly higher priority.
C9_InvokedInPriorityOrder ==
    /\ InPriorityOrder(inv.log)
    /\ InPriorityOrder(lastrun.log)

\* C10: a function that carries a numeric priority of its own keeps it when its
\* module is loaded: in every chain the priority of such a function is the one
\* its module declared for it.
C10_OwnPriorityKept ==
    \A n \in HookNames :
        IsExecutor(hooksTable[n]) =>
            \A k \in 1 .. Len(hooksTable[n].hooks) :
               LET h == hooksTable[n].hooks[k]
               IN  h.declared.t = "number" => h.priority = h.declared.v

(***************************************************************************)
(* Claims on the dispatcher and the renderer.                              *)
(***************************************************************************)
\* a descriptor with a status in [100,600), no error and a bytes or string body
ValidDescriptor(d) ==
    /\ d.t = "object"
    /\ d.error = Undefined
    /\ d.status.t = "number" /\ ~d.status.nan /\ d.status.v >= 100 /\ d.status.v < 600
    /\ d.data.t \in {"string", "buffer", "uint8array"}

\* C1: when the hook chain of a request ends with lastResult being a valid
\* descriptor, the terminal callback of the dispatcher sends a response with
\* that status and that body (checked under SpecServer).
C1_ValidDescriptorIsSent ==
    [][(/\ ticks # <<>>
        /\ Head(ticks).kind = "cb"
        /\ inv.cb = "request"
        /\ ticks' = Tail(ticks)
        /\ ValidDescriptor(inv.ctx._lastResult))
       => /\ resp'.statusCode = inv.ctx._lastResult.status.v
          /\ resp'.body = Rendered(inv.ctx._lastResult).data]_vars

\* status in [100,600), body bytes or a string, entityTag a string, maxAge a
\* number
Eligible(d) ==
    /\ ValidDescriptor(d)
    /\ d.data.t = "string" => d.data.v # ""
    /\ d.entityTag.t = "string"
    /\ d.maxAge.t = "number"

\* C7: rendering descriptor d for a url puts d in the cache under the key of
\* the url if d has a valid status, a bytes or string body, a string entityTag
\* and a numeric maxAge, and leaves the cache as it was otherwise (checked
\* under SpecRender).
C7_CachedIffEligible ==
    [][(req'.phase = "rendered" /\ resp' # resp)
       => LET d == resp'.rendered
              k == CanonicalHost \o "$" \o req'.url
          IN  IF Eligible(d)
              THEN /\ cache'._map[k].t = "ResponseCacheItem"
                   /\ cache'._map[k].data = Rendered(d)
              ELSE cache' = cache]_vars

\* a step that runs __runExternalRequestHandler for the request req'
DispatchStep ==
    /\ ticks = <<>>
    /\ ticks' = <<>> \/ Head(ticks').kind = "cb"
    /\ now' = now
    /\ hooksTable' = hooksTable
    /\ req'.phase \in {"hooks", "done", "threw"}
    /\ req'.outcome # "none"
    /\ inv'.continues = 0
    /\ inv'.delivered = <<>>

\* chain name has a function that site category A (mask 1) includes
HasMatching(name) ==
    /\ hooksTable[name].t = "HookExecutor"
    /\ \E n \in 1 .. Len(hooksTable[name].hooks) :
          \/ hooksTable[name].hooks[n].cat = -1
          \/ hooksTable[name].hooks[n].cat % 2 = 1

LiveEntry(k) ==
    /\ cache._map[k].t = "ResponseCacheItem"
    /\ ~(cache._map[k].expire.v < now)

\* url.parse(u).pathname.substr(1): the path of the request-target, without
\* the query string
PathOf(u) == IF u = "/page?q=1" THEN "page" ELSE TargetOf(u)

\* the outcome the precedence asks for, for url u whose path is path
Precedence(u, path) ==
    IF LiveEntry(CanonicalHost \o "$" \o u) THEN "cache"
    ELSE IF path # "" /\ HasMatching(CanonicalHost \o "$" \o path) THEN "uri"
    ELSE IF HasMatching(CanonicalHost \o "$") THEN "default"
    ELSE "404"

\* a dispatch chooses the outcome of the precedence, path(u) being the path of u
OutcomeFollows(path(_)) ==
    DispatchStep =>
        LET u == req'.url
            p == Precedence(u, path(u))
        IN  /\ req'.outcome = p
            /\ p = "cache" =>
                 /\ inv' = NoInv /\ lastrun'.log = <<>>
                 /\ resp'.rendered = cache._map[CanonicalHost \o "$" \o u].data
                 /\ resp'.state = "ended"
                 /\ resp'.statusCode = resp'.rendered.status.v
            /\ p = "uri" =>
                 /\ inv'.name = CanonicalHost \o "$" \o path(u)
                 /\ inv'.log # <<>>
                 /\ resp' = OpenResponse
            /\ p = "default" =>
                 /\ inv'.name = CanonicalHost \o "$"
                 /\ inv'.log # <<>>
                 /\ inv'.log[1].args[1] = Str(path(u))
                 /\ resp' = OpenResponse
            /\ p = "404" =>
                 /\ inv' = NoInv
                 /\ resp'.state = "ended" /\ resp'.statusCode = 404

\* C8: a request that reaches hook execution gets exactly one of four outcomes:
\* a live cache entry for hosts[0]$url is rendered and no hook function runs;
\* otherwise the chain hosts[0]$path is called if it has a matching function;
\* otherwise the chain hosts[0]$ if it has one; otherwise the answer is 404
\* (path being the path of the request-target without its leading slash and
\* without its query string; checked under SpecServer).
C8_OutcomeByPrecedence == [][OutcomeFollows(PathOf)]_vars

\* the same precedence with uri.path.substr(1), which keeps the query string,
\* in the place of the path: this is what __runExternalRequestHandler follows
OutcomeByPrecedenceOfTarget == [][OutcomeFollows(TargetOf)]_vars

(***************************************************************************)
(* Claims on the chain invocation modes, checked under SpecChain.          *)
(***************************************************************************)
\* the value the body of the function of log entry e returns (SYNC) or hands
\* to this.callback (ASYNC)
ValueOf(e) ==
    IF e.fn.ret = PassLast THEN e.lr
    ELSE IF e.fn.ret.t = "callsBack" THEN e.fn.ret.v
    ELSE e.fn.ret

\* what the function of log entry e leaves in lastResult
LeftBy(e) == IF e.fn.execPolicy = 1 THEN e.lr ELSE ValueOf(e)

\* every continuation of the invocation was called at most once
CalledOnce(i) ==
    /\ \A a, b \in 1 .. Len(i.resumed) : a # b => i.resumed[a] # i.resumed[b]
    /\ \A a \in 1 .. Len(i.resumed) : i.log[i.resumed[a]].fn.ret.t # "callsBack"

\* C11: in a CALL-mode invocation the first function sees lastResult undefined
\* and every later one the value the function before it left (SYNC: its return
\* value, EVENT: what it saw itself, ASYNC: the argument of its continuation);
\* the terminal callback gets what the last function left.
C11_LastResultChain ==
    (inv.active /\ CalledOnce(inv)) =>
        /\ inv.log # <<>> => inv.log[1].lr = Undefined
        /\ \A k \in 1 .. Len(inv.log) - 1 : inv.log[k + 1].lr = LeftBy(inv.log[k])
        /\ \A d \in 1 .. Len(inv.delivered) :
              inv.delivered[d] = IF inv.log = <<>> THEN Undefined
                                 ELSE LeftBy(inv.log[Len(inv.log)])

\* SYNC, EVENT, ASYNC and a SYNC function that passes lastResult on have run in
\* this order and the callback got the argument of the continuation
C11_Witness ==
    /\ inv.active /\ CalledOnce(inv)
    /\ Len(inv.log) = 4
    /\ inv.log[1].fn.execPolicy = 0 /\ inv.log[2].fn.execPolicy = 1
    /\ inv.log[3].fn.execPolicy = 2 /\ inv.log[4].fn.ret = PassLast
    /\ inv.log[3].lr = Str("sync")
    /\ inv.delivered = <<Str("async")>>

\* the terminal callbacks of the invocation still queued with process.nextTick
PendingCallbacks == {t \in 1 .. Len(ticks) : ticks[t].kind = "cb"}

\* C12: whatever number of times the ASYNC functions of a CALL-mode invocation
\* call this.callback, the terminal callback fires at most once and no function
\* is run more than once.
C12_TerminalCallbackOnce ==
    inv.active =>
        /\ Len(inv.delivered) + Cardinality(PendingCallbacks) <= 1
        /\ \A a, b \in 1 .. Len(inv.log) : a # b => inv.log[a].fn # inv.log[b].fn

\* C13: the terminal callback of a CALL-mode invocation runs only when a tick
\* queued by call fires: never in the step of the initiating callHook, nor in
\* a step that invokes a function of the chain or a continuation.
C13_CallbackOnLaterTurn ==
    [][(inv'.delivered # inv.delivered /\ inv'.delivered # <<>>)
       => /\ ticks # <<>>
          /\ Head(ticks).kind = "cb"
          /\ ticks' = Tail(ticks)
          /\ inv'.log = inv.log
          /\ inv'.continues = inv.continues
          /\ inv'.delivered = Append(inv.delivered, inv.ctx._lastResult)]_vars

\* the callback has run for a chain whose ASYNC function called its
\* continuation inside the initiating call
C13_Witness ==
    /\ inv.active
    /\ inv.continues = 0
    /\ inv.delivered # <<>>
    /\ \E k \in 1 .. Len(inv.log) : inv.log[k].fn.ret.t = "callsBack"

\* C14: callHookSync runs no ASYNC function and returns the final lastResult
\* to its caller.
C14_CallHookSyncReturnsLastResult ==
    (lastrun.op = "callHookSync" /\ lastrun.outcome = "returned") =>
        /\ \A k \in 1 .. Len(lastrun.log) : lastrun.log[k].fn.execPolicy \in {0, 1}
        /\ lastrun.result = lastrun.lastResult

\* bit b of a category mask; ALL_CATS has every bit set
CategoryBits == 0 .. 25
BitValue == [b \in CategoryBits |-> Pow2(b)]
HasBit(x, b) == x = -1 \/ (x \div BitValue[b]) % 2 = 1

\* a function of category mask cat is included for the requested mask m
Includes(strict, cat, m) ==
    IF strict THEN cat = m ELSE \E b \in CategoryBits : HasBit(cat, b) /\ HasBit(m, b)

\* the functions of chain name that a request with mask m includes, in order
Included(name, strict, m) ==
    IF IsExecutor(hooksTable[name])
    THEN SelectSeq(hooksTable[name].hooks, LAMBDA h : Includes(strict, h.cat, m))
    ELSE <<>>

\* C15: runHook / runHookStrict invokes every matching function of the chain,
\* ASYNC ones included, in one pass: each sees lastResult undefined, the
\* callback of the context is the dummy, and no terminal callback is queued.
C15_DispatchSinglePass ==
    [][(lastrun' # lastrun /\ lastrun'.op = "runHook" /\ lastrun'.outcome = "returned")
       => /\ [k \in 1 .. Len(lastrun'.log) |-> lastrun'.log[k].fn]
                = Included(lastrun'.name, lastrun'.strict, lastrun'.catMask)
          /\ \A k \in 1 .. Len(lastrun'.log) : lastrun'.log[k].lr = Undefined
          /\ lastrun'.callback = "dummy"
          /\ lastrun'.result = Undefined
          /\ Cardinality(PendingCallbacks') = Cardinality(PendingCallbacks)
          /\ Len(inv'.delivered) <= Len(inv.delivered)]_vars

\* a dispatch ran a SYNC function that returns a value, then an ASYNC function,
\* then another function
C15_Witness ==
    /\ lastrun.op = "runHook" /\ lastrun.outcome = "returned"
    /\ \E a, b, c \in 1 .. Len(lastrun.log) :
          /\ a < b /\ b < c
          /\ lastrun.log[a].fn.execPolicy = 0 /\ lastrun.log[a].fn.ret = Str("sync")
          /\ lastrun.log[b].fn.execPolicy = 2

\* the functions and the category masks of a log, in order
FunctionsOf(log) == [k \in 1 .. Len(log) |-> log[k].fn]
CatsOf(log) == [k \in 1 .. Len(log) |-> log[k].fn.cat]

\* the chain of PageHook holds the functions of s, e, x and n.hook.js, whose
\* masks are 0b001, 0b010, 0b011 and ALL_CATS
ExampleChain ==
    /\ IsExecutor(hooksTable[PageHook])
    /\ [k \in 1 .. Len(hooksTable[PageHook].hooks) |-> hooksTable[PageHook].hooks[k].cat]
         = <<1, 2, 3, -1>>

\* C16: a request with mask m runs the functions f with (f.cat & m) # 0 under
\* inclusive matching and those with f.cat = m under strict matching, in every
\* mode; on the chain with masks 0b001, 0b010, 0b011, ALL_CATS and m = 0b001
\* these are 0b001, 0b011, ALL_CATS (inclusive) and 0b001 (strict).
C16_MatchingByMask ==
    /\ (lastrun.op = "runHook" /\ lastrun.outcome = "returned")
         => /\ FunctionsOf(lastrun.log)
                 = Included(lastrun.name, lastrun.strict, lastrun.catMask)
            /\ (ExampleChain /\ lastrun.name = PageHook /\ lastrun.catMask = 1)
                 => CatsOf(lastrun.log) = IF lastrun.strict THEN <<1>> ELSE <<1, 3, -1>>
    /\ (lastrun.op = "callHookSync" /\ lastrun.outcome = "returned")
         => FunctionsOf(lastrun.log)
              = SelectSeq(Included(lastrun.name, FALSE, lastrun.catMask),
                          LAMBDA h : h.execPolicy # 2)
    /\ (inv.active /\ inv.continues = 0 /\ PendingCallbacks # {})
         => /\ FunctionsOf(inv.log) = Included(inv.name, inv.ctx.strict, inv.catMask)
            /\ (ExampleChain /\ inv.catMask = 1)
                 => CatsOf(inv.log) = IF inv.ctx.strict THEN <<1>> ELSE <<1, 3, -1>>
    /\ inv.active
         => \A k \in 1 .. Len(inv.log) :
               Includes(inv.ctx.strict, inv.log[k].fn.cat, inv.catMask)

\* on the example chain an inclusive callHook with mask 0b001 has run the
\* functions with masks 0b001, 0b011 and ALL_CATS to the end
C16_Witness ==
    /\ ExampleChain
    /\ inv.active /\ inv.continues = 0 /\ PendingCallbacks # {}
    /\ inv.catMask = 1 /\ ~inv.ctx.strict
    /\ CatsOf(inv.log) = <<1, 3, -1>>

\* the functions of the chain declared without categories
Categoryless(name) ==
    IF IsExecutor(hooksTable[name])
    THEN SelectSeq(hooksTable[name].hooks, LAMBDA h : h.cat = ALL_CATS)
    ELSE <<>>

\* C17: under inclusive matching a function declared without categories is
\* included for every requested mask, the mask 0 too.
C17_CategorylessAlwaysIncluded ==
    (lastrun.op = "runHook" /\ lastrun.outcome = "returned" /\ ~lastrun.strict)
        => \A j \in 1 .. Len(Categoryless(lastrun.name)) :
              InSeq(Categoryless(lastrun.name)[j], FunctionsOf(lastrun.log))

\* C17 as it holds: under inclusive matching a function declared without
\* categories is included for every requested mask other than 0, and the mask 0
\* includes no function at all.
C17_CategorylessIncludedUnlessMaskZero ==
    (lastrun.op = "runHook" /\ lastrun.outcome = "returned" /\ ~lastrun.strict)
        => IF lastrun.catMask = 0 THEN lastrun.log = <<>>
           ELSE \A j \in 1 .. Len(Categoryless(lastrun.name)) :
                   InSeq(Categoryless(lastrun.name)[j], FunctionsOf(lastrun.log))

\* a request with mask B ran the categoryless function and not the function
\* of category A that is in the chain
C17_Witness ==
    /\ lastrun.op = "runHook" /\ lastrun.outcome = "returned" /\ ~lastrun.strict
    /\ lastrun.catMask = 2
    /\ Categoryless(lastrun.name) # <<>>
    /\ InSeq(-1, CatsOf(lastrun.log))
    /\ ~InSeq(1, CatsOf(lastrun.log))
    /\ \E k \in 1 .. Len(hooksTable[lastrun.name].hooks) :
          hooksTable[lastrun.name].hooks[k].cat = 1

\* C18: checkTarget(mask, name, strict) is true exactly when name has a chain
\* with a function that the mask includes under the match mode, also for the
\* mask -1, and when it is true a runHook or callHook with these arguments
\* runs at least one function.
C18_CheckTargetIffIncluded ==
    /\ \A n \in HookNames, m \in ChainMasks \cup {3}, st \in BOOLEAN :
          checkTarget(hooksTable, m, n, st) <=> Included(n, st, m) # <<>>
    /\ (lastrun.op = "runHook" /\ lastrun.outcome # "none"
         /\ checkTarget(hooksTable, lastrun.catMask, lastrun.name, lastrun.strict))
          => lastrun.log # <<>>
    /\ (inv.active /\ inv.continues = 0
         /\ checkTarget(hooksTable, inv.catMask, inv.name, inv.ctx.strict))
          => inv.log # <<>>

\* a chain is registered, checkTarget is false for the strict mask -1 and true
\* for the inclusive mask -1, and a strict runHook with mask -1 ran nothing
C18_Witness ==
    /\ IsExecutor(hooksTable[PageHook])
    /\ ~checkTarget(hooksTable, ALL_CATS, PageHook, TRUE)
    /\ checkTarget(hooksTable, ALL_CATS, PageHook, FALSE)
    /\ lastrun.op = "runHook" /\ lastrun.strict /\ lastrun.catMask = ALL_CATS
    /\ lastrun.name = PageHook /\ lastrun.log = <<>>

(***************************************************************************)
(* Claims on reloading modules.                                            *)
(***************************************************************************)
\* the functions chain name of table holds for source file sign
FromSource(table, name, sign) ==
    IF IsExecutor(table[name])
    THEN {table[name].hooks[k] : k \in {j \in 1 .. Len(table[name].hooks) :
                                            table[name].hooks[j].src = sign}}
    ELSE {}

\* the functions a version mod of file sign exports for chain name
ExportedFor(mod, name, sign) ==
    {h \in {getHooksFromModule(mod, sign)[k] : k \in 1 .. Len(mod.exports)} :
        h.type = name}

\* C19: after a module file is loaded again every chain holds, for that file,
\* exactly the functions its new version exports for the chain.
C19_ReloadReplacesFunctions ==
    [][\A f \in ModuleFiles : \A mod \in Catalogue[f] :
          LoadModule(f, mod)
            => \A n \in HookNames :
                  FromSource(hooksTable', n, f) = ExportedFor(mod, n, f)]_vars

\* C20: a module that exports a SYNC and an ASYNC function under one hook
\* name has both registered in the chain of that name.
C20_BothFunctionsRegistered ==
    \A n \in HookNames :
        FromSource(hooksTable, n, "example.hook.js") # {}
          => \A mod \in ChainCatalogue["example.hook.js"] :
                FromSource(hooksTable, n, "example.hook.js")
                  = ExportedFor(mod, n, "example.hook.js")

(***************************************************************************)
(* Claims on a callHook that finds nothing to call, under SpecChain.       *)
(***************************************************************************)
\* the terminal callback of the invocation was or will be called once, with
\* undefined
CalledBackOnceWithUndefined ==
    /\ ~inv.threw
    /\ Len(inv.delivered) + Cardinality(PendingCallbacks) = 1
    /\ \A k \in 1 .. Len(inv.delivered) : inv.delivered[k] = Undefined

Redirected == resp.state = "ended" /\ resp.Location # Undefined

\* no function of any chain was invoked for the request
NoHookInvoked == inv = NoInv /\ lastrun = NoRun

\* the site of a key that config.sites was given
ConfiguredSite(key) ==
    IF key \in DOMAIN config.sites THEN config.sites[key] ELSE Undefined

ResolvedSite(host) ==
    IF host.t = "string" /\ host.v # "" /\ host.v \in DOMAIN config.sites
    THEN config.sites[host.v]
    ELSE IF (host.t # "string" \/ host.v = "") /\ "!" \in DOMAIN config.sites
    THEN config.sites["!"]
    ELSE ConfiguredSite("*")

SiteResolutionOf(hosts) ==
    (req.phase # "none" /\ ~Redirected /\ req.host \in hosts)
        => /\ req.site = ResolvedSite(req.host)
           /\ req.site = Undefined
                => resp.state = "destroyed" /\ resp.ends = 0 /\ NoHookInvoked

\* C22: a request is served by sites[Host] when Host is a non-empty string
\* that config.sites was given, by sites["!"] when Host is missing or empty
\* and "!" is configured, otherwise by sites["*"]; with none of these the
\* connection is destroyed, nothing is written and no hook is invoked.
C22_SiteResolution == SiteResolutionOf(Hosts)

\* the same for the hosts that are no property of Object.prototype
SiteResolutionOfOwnKeys ==
    SiteResolutionOf({h \in Hosts : h.t # "string" \/ h.v \notin ObjectPrototypeKeys})

\* C23: on a resolved site a request of a method other than GET, HEAD and
\* POST is answered with 405 and reaches neither body collection nor a hook.
C23_OtherMethods405 ==
    (req.phase # "none" /\ ~Redirected /\ Truthy(req.site)
     /\ req.method \notin {"GET", "HEAD", "POST"})
        => /\ resp.state = "ended" /\ resp.statusCode = 405
           /\ req.chunks = 0
           /\ NoHookInvoked

\* C24: a request is answered with the redirect to https exactly when TLS
\* endpoints are running, its connection is plaintext and the policy is
\* "reject", or "upgrade" with upgrade-insecure-requests: 1; the redirect is
\* 301 for GET and HEAD and 308 otherwise, with Location https://<Host><url>
\* and Vary: Upgrade-Insecure-Requests, and the request goes no further.
C24_RedirectIff ==
    req.phase # "none"
        => /\ Redirected
                <=> /\ config.tls
                    /\ ~req.secure
                    /\ \/ config.plaintextPolicy = "reject"
                       \/ config.plaintextPolicy = "upgrade" /\ req.uir = Str("1")
           /\ Redirected
                => /\ resp.statusCode = IF req.method \in {"GET", "HEAD"} THEN 301 ELSE 308
                   /\ resp.Location = [scheme |-> "https", host |-> req.host, url |-> req.url]
                   /\ resp.Vary = Str("Upgrade-Insecure-Requests")
                   /\ resp.ends = 1
                   /\ req.phase = "done" /\ req.site = Undefined /\ req.chunks = 0
                   /\ NoHookInvoked

\* a plaintext POST with upgrade-insecure-requests: 1 was answered 308 under
\* the policy "upgrade"
C24_Witness ==
    /\ req.phase # "none" /\ Redirected
    /\ req.method = "POST" /\ resp.statusCode = 308
    /\ config.plaintextPolicy = "upgrade" /\ req.uir = Str("1")

\* the Content-Length of the request exceeds config.uploadMaxUnitSize
Exceeds(rq) ==
    Truthy(rq.contentLength) /\ parseInt(rq.contentLength) > UploadMaxUnitSize

\* C25: a POST on a resolved site whose Content-Length exceeds
\* uploadMaxUnitSize is destroyed and answered 406 in the request handler: no
\* chunk of it is ever consumed, pendingUploads is left as it was and no hook
\* is invoked for it.
C25_OversizedPostRejected ==
    [][(req'.phase # "none" /\ ~Redirected' /\ Truthy(req'.site)
        /\ req'.method = "POST" /\ Exceeds(req'))
       => /\ req'.phase = "destroyed"
          /\ resp'.state = "ended" /\ resp'.statusCode = 406 /\ resp'.ends = 1
          /\ req'.chunks = 0 /\ req'.dlen = 0
          /\ inv' = NoInv /\ lastrun' = NoRun
          /\ pendingUploads' = pendingUploads]_vars

\* an oversized POST was rejected while bytes of another upload are pending
C25_Witness ==
    /\ req.phase = "destroyed" /\ req.method = "POST" /\ Exceeds(req)
    /\ resp.statusCode = 406
    /\ pendingUploads > 0

(***************************************************************************)
(* Claims on concurrent uploads, checked under SpecUploads.                *)
(***************************************************************************)
\* C26: whatever the interleaving of the chunks of concurrent POST requests,
\* pendingUploads never exceeds uploadMaxStorage; a chunk that fits is counted
\* and accumulated; the request whose chunk would pass the limit is destroyed
\* with an error, that chunk is not accumulated nor counted, and the request
\* is answered without reaching the hooks.
C26_PendingUploadsBounded ==
    /\ [](pendingUploads <= UploadMaxStorage)
    /\ [][\A k \in Connections :
            /\ (req[k].phase = "collecting" /\ req'[k].phase = "collecting"
                 /\ req'[k].chunks # req[k].chunks)
                 => /\ req'[k].dlen > req[k].dlen
                    /\ pendingUploads' - pendingUploads = req'[k].dlen - req[k].dlen
            /\ (req[k].phase = "collecting" /\ req'[k].phase = "failing")
                 => /\ \E len \in 1 .. 2 : pendingUploads + len > UploadMaxStorage
                    /\ req'[k].dlen = req[k].dlen
                    /\ pendingUploads' = pendingUploads
            /\ req[k].phase = "failing"
                 => /\ req'[k].phase \in {"failing", "done"}
                    /\ req'[k].outcome = "none"
                    /\ req'[k].dlen = req[k].dlen
                    /\ req'[k].phase = "done"
                         => resp'[k].state = "ended" /\ resp'[k].statusCode = 406]_vars

\* the chunk of one request was refused while the other request holds bytes
\* that it has accumulated
C26_Witness ==
    \E k, j \in Connections :
        /\ k # j
        /\ req[k].phase = "failing"
        /\ req[j].phase = "collecting" /\ req[j].dlen > 0
        /\ req[k].dlen + req[j].dlen = pendingUploads
        /\ req[k].dlen > 0

(***************************************************************************)
(* Claims on the descriptors the renderer refuses or hands over, checked   *)
(* under SpecRender.                                                       *)
(***************************************************************************)
\* the descriptor has a number as status that is outside [100,600)
IllegalStatus(d) ==
    d.status.t = "number" /\ (d.status.nan \/ d.status.v < 100 \/ d.status.v >= 600)

\* the descriptor has neither a number as status nor a string as manual
NoStatusNoManual(d) == d.status.t # "number" /\ d.manual.t # "string"

Answered500 == resp.state = "ended" /\ resp.statusCode = 500 /\ resp.ends = 1

IllegalStatus500 ==
    (req.phase = "rendered" /\ resp.rendered.t = "object" /\ IllegalStatus(resp.rendered))
        => Answered500

\* the dispatcher handed the request over to the chain of d.manual, or
\* answered 502 when there is none
Delegated(d) ==
    IF d.manual.v \in HookNames /\ IsExecutor(hooksTable[d.manual.v])
    THEN /\ lastrun.op = "runHook" /\ lastrun.name = d.manual.v
         /\ lastrun.log # <<>>
         /\ resp.state = "open" /\ resp.ends = 0 /\ resp.statusCode = 200
    ELSE resp.state = "ended" /\ resp.statusCode = 502

\* C28: a descriptor whose manual is a string is delegated, whatever its
\* other fields, the status 0 of a new ResponsePrototype included: the chain
\* of that name is run in DISPATCH mode and the dispatcher writes nothing, or
\* the answer is 502 when no chain has that name.
C28_ManualDelegates ==
    (req.phase = "rendered" /\ resp.rendered.t = "object"
     /\ resp.rendered.manual.t = "string")
        => Delegated(resp.rendered)

\* the same for the descriptors that have no number as status and no error
ManualWithoutStatusDelegates ==
    (req.phase = "rendered" /\ resp.rendered.t = "object"
     /\ resp.rendered.manual.t = "string" /\ resp.rendered.status.t # "number"
     /\ resp.rendered.error.t # "error")
        => Delegated(resp.rendered)

(***************************************************************************)
(* Claims on hook functions that throw, checked under SpecHooks.  The      *)
(* loader is created as the server creates it, with options.safe = true,   *)
(* an option that HookLoader and HookExecutor never read.                  *)
(***************************************************************************)
\* a function invoked by the invocation threw
FunctionThrew == \E k \in 1 .. Len(inv.log) : inv.log[k].fn.ret = Throws

\* C29: when a function of the chain throws during a callHook, the exception
\* does not leave callHook and the terminal callback is still called, once.
C29_ThrowIsGuarded ==
    (inv.active /\ FunctionThrew)
        => /\ ~inv.threw
           /\ Len(inv.delivered) + Cardinality(PendingCallbacks) = 1

(***************************************************************************)
(* Claims on the end of every request, checked under SpecServerFair.       *)
(***************************************************************************)
\* the response was sent, or is being piped, or the connection was destroyed
Terminated == resp.state \in {"ended", "piped", "destroyed"}

\* C30: every request the dispatcher has taken up ends in one terminal
\* outcome, a response sent or the connection destroyed, and in one only.
C30_EveryRequestAnswered ==
    /\ (req.phase # "none") ~> Terminated
    /\ [](resp.state # "none" => resp.ends <= 1)

(***************************************************************************)
(* Claims on the parameters handed to the hooks, checked under SpecServer. *)
(***************************************************************************)
\* the params argument of the first function invoked for the request: the
\* second argument of the site-default chain, the first of a URI chain
ParamsSeen ==
    IF inv.name = DefaultHook THEN inv.log[1].args[2] ELSE inv.log[1].args[1]

\* the request is a POST with the form body "q=2" whose hooks were invoked
FormPostInHooks ==
    /\ req.phase # "none" /\ req.method = "POST" /\ req.contentType = FormType
    /\ req.url = "/page?q=1" /\ req.dlen = 3
    /\ inv.active /\ inv.cb = "request" /\ inv.log # <<>>

\* C31: the params of a POST with body parameters and query parameters are
\* the union of both, the body value winning for a name in both: for the body
\* q=2 and the query q=1 the hooks get {q: "2"}.
C31_BodyOverridesQuery ==
    FormPostInHooks => ParamsSeen.own = [k \in {"q"} |-> Str("2")]

(***************************************************************************)
(* Construction of the server from a configuration: the configuration is   *)
(* built by assigning addrs and by addSiteConfig, the sites are validated  *)
(* directly, and new ServerInstance(config) either returns or throws.      *)
(***************************************************************************)
HostsOf(site) == {site.hosts[i] : i \in 1 .. Len(site.hosts)}

\* new HostedSiteConfig(hostname, description, category)
HostedSiteConfig(hostname, category) ==
    [t |-> "site", hosts |-> hostname, category |-> category]

\* /^A-Z$/.test(s): the pattern has no character class, it is the text "A-Z"
\* between the anchors
Test_AZ(s) == s = "A-Z"

ValidationError(message) == [t |-> "ValidationError", message |-> message]

\* HostedSiteConfig.validate
HostedSiteConfig_validate(site) ==
    IF Len(site.hosts) = 0 THEN ValidationError("At least one host name must be defined")
    ELSE IF site.category.t # "string" \/ ~Test_AZ(site.category.v)
    THEN ValidationError("Illegal category specified")
    ELSE Null

\* new ServerConfig(): no address, no site; declared remembers the sites
\* handed to addSiteConfig
ServerConfig_new ==
    [t |-> "ServerConfig", addrs |-> <<>>, sites |-> [h \in {} |-> Null], declared |-> {}]

\* ServerConfig.addSiteConfig, of one HostedSiteConfig
addSiteConfig(cfg, site) ==
    [cfg EXCEPT !.sites = [h \in DOMAIN cfg.sites \cup HostsOf(site) |->
                              IF h \in HostsOf(site) THEN site ELSE cfg.sites[h]],
                !.declared = @ \cup {site}]

\* ServerConfig.validate
ServerConfig_validate(cfg) ==
    IF Len(cfg.addrs) = 0
    THEN ValidationError("At least one address to bind to must be specified")
    ELSE Null

\* the constructor of ServerInstance
ServerInstance_new(cfg) ==
    IF cfg.t = "ServerConfig"
    THEN IF Truthy(ServerConfig_validate(cfg))
         THEN [state |-> "threw", err |-> ServerConfig_validate(cfg)]
         ELSE [state |-> "constructed", err |-> Null]
    ELSE [state |-> "threw", err |-> ValidationError("Config must not be null.")]

NoInstance == [state |-> "none", err |-> Null, site |-> Null, verdict |-> Null]

UpperLetters ==
    {"A", "B", "C", "D", "E", "F", "G", "H", "I", "J", "K", "L", "M", "N", "O", "P", "Q",
     "R", "S", "T", "U", "V", "W", "X", "Y", "Z"}

SiteCategories == {Str("A"), Str("Z"), Str("a"), Str("AB"), Str("A-Z"), Undefined}
MaxSites == 2
SiteHostLists == {<<>>, <<CanonicalHost>>, <<"www.foo.bar", "bar.foo">>}
SiteConfigs == {HostedSiteConfig(h, c) : h \in SiteHostLists, c \in SiteCategories}

\* config.addrs = addrs
SetAddrs(addrs) ==
    /\ config' = [config EXCEPT !.addrs = addrs]
    /\ UNCHANGED <<cacheVars, hookVars, req, resp, pendingUploads, instance, watcher, list>>

AddSite(site) ==
    /\ Cardinality(config.declared) < MaxSites
    /\ config' = addSiteConfig(config, site)
    /\ UNCHANGED <<cacheVars, hookVars, req, resp, pendingUploads, instance, watcher, list>>

\* site.validate(), called directly
ValidateSite(site) ==
    /\ instance' = [instance EXCEPT !.site = site, !.verdict = HostedSiteConfig_validate(site)]
    /\ UNCHANGED <<cacheVars, hookVars, serverVars, watcher, list>>

\* new ServerInstance(config)
Construct ==
    /\ instance' = [instance EXCEPT !.state = ServerInstance_new(config).state,
                                    !.err = ServerInstance_new(config).err]
    /\ UNCHANGED <<cacheVars, hookVars, serverVars, watcher, list>>

InitConfig ==
    /\ cache = ResponseCache_new(CacheSizeLimit)
    /\ now = 0
    /\ last = NoCall
    /\ mru = <<>>
    /\ HooksIdle
    /\ req = NoRequest
    /\ resp = NoResponse
    /\ pendingUploads = 0
    /\ config = ServerConfig_new
    /\ instance = NoInstance
    /\ watcher = Null
    /\ list = Null

NextConfig ==
    \/ \E addrs \in {<<>>, <<"0.0.0.0">>} : SetAddrs(addrs)
    \/ \E site \in SiteConfigs : AddSite(site)
    \/ \E site \in SiteConfigs : ValidateSite(site)
    \/ Construct

SpecConfig == InitConfig /\ [][NextConfig]_vars

\* the category is one letter from A to Z
SingleUpperLetter(category) == category.t = "string" /\ category.v \in UpperLetters

WellFormedSite(site) == Len(site.hosts) > 0 /\ SingleUpperLetter(site.category)

\* C32: constructing a ServerInstance throws whenever the configuration has
\* no bind address or has a site with an empty host list or with a category
\* that is not one letter A-Z; and validate of a site whose category is one
\* upper-case letter (and that has a host) reports no error.
C32_ConstructionValidates ==
    /\ instance.state = "constructed" =>
           /\ Len(config.addrs) > 0
           /\ \A site \in config.declared : WellFormedSite(site)
    /\ instance.site # Null /\ WellFormedSite(instance.site) => instance.verdict = Null

(***************************************************************************)
(* The filesystem watcher of the hook library: fs.watch events, the timer  *)
(* they re-arm, and the reload of the batch when the timer fires.  The     *)
(* clock advances in steps of WatchStep milliseconds.                      *)
(***************************************************************************)
DELAY == 200
WatchStep == 100
MaxEvents == 3

WatchedFiles == {"b.hook.js", "c.hook.js", "notes.txt"}

\* HOOK_FILE_NAME_REGEX.test, for the watched files
IsHookFile(f) == f \in {"b.hook.js", "c.hook.js"}

\* what require finds in the hook files when a batch is reloaded
DiskStates ==
    {d \in [{f \in WatchedFiles : IsHookFile(f)} -> UNION {Catalogue[f] : f \in ModuleFiles}] :
        \A f \in DOMAIN d : d[f] \in Catalogue[f]}

\* the closure of __runHookWatcher: changes, the timeout (armed, and due in so
\* many ms); and what is followed of it: the number of events seen, the ms
\* since the last one (up to DELAY), the batches handed to
\* __hookWatcherCallback, and the registry as the last batch left it
WatcherIdle ==
    [changes |-> <<>>, armed |-> FALSE, due |-> 0, events |-> 0, quiet |-> 0,
     batches |-> <<>>, merged |-> Null]

Rearm_KeepFirst(w) ==
    IF w.armed THEN w ELSE [w EXCEPT !.armed = TRUE, !.due = DELAY]

\* clearTimeout(timeout); timeout = setTimeout(..., DELAY)
Rearm(w) == [w EXCEPT !.armed = TRUE, !.due = DELAY]

\* the listener of fs.watch, for an event on filename
FsEvent(filename) ==
    /\ ticks = <<>>
    /\ watcher.events < MaxEvents
    /\ watcher' = Rearm([watcher EXCEPT
                            !.changes = Append(@, [id |-> watcher.events + 1,
                                                   file |-> filename]),
                            !.events = @ + 1,
                            !.quiet = 0])
    /\ UNCHANGED <<cacheVars, hookVars, serverVars, instance, list>>

\* WatchStep ms pass with no event
Elapse ==
    /\ ticks = <<>>
    /\ watcher.armed /\ watcher.due > 0
    /\ watcher' = [watcher EXCEPT
                      !.due = IF @ > WatchStep THEN @ - WatchStep ELSE 0,
                      !.quiet = IF @ + WatchStep < DELAY THEN @ + WatchStep ELSE DELAY]
    /\ UNCHANGED <<cacheVars, hookVars, serverVars, instance, list>>

RECURSIVE MergeAll(_, _, _)
\* modules.forEach of __mergeHooksIntoTable: the modules one after the other
MergeAll(table, modules, disk) ==
    IF modules = <<>> THEN table
    ELSE MergeAll(mergeHooksIntoTable(table, disk[Head(modules)], Head(modules)),
                  Tail(modules), disk)

\* the modules __hookWatcherCallback hands on, of a batch
HookModules(batch) ==
    SelectSeq([i \in 1 .. Len(batch) |-> batch[i].file], IsHookFile)

\* the timeout fires: __hookWatcherCallback(changes.splice(0, changes.length))
TimerFires ==
    /\ ticks = <<>>
    /\ watcher.armed /\ watcher.due = 0
    /\ \E disk \in DiskStates :
         \E merged \in {MergeAll(hooksTable, HookModules(watcher.changes), disk)} :
            /\ hooksTable' = merged
            /\ watcher' = [watcher EXCEPT !.changes = <<>>, !.armed = FALSE,
                                          !.batches = Append(@, watcher.changes),
                                          !.merged = merged]
    /\ ticks' = [i \in 1 .. Len(HookModules(watcher.changes)) |->
                   [kind |-> "changed", mod |-> HookModules(watcher.changes)[i]]]
    /\ lastrun' = NoRun
    /\ UNCHANGED <<cacheVars, inv, serverVars, instance, list>>

InitWatch ==
    /\ cache = ResponseCache_new(CacheSizeLimit)
    /\ now = 0
    /\ last = NoCall
    /\ mru = <<>>
    /\ HooksIdle
    /\ ServerIdle
    /\ instance = Null
    /\ watcher = WatcherIdle
    /\ list = Null

NextWatch ==
    \/ \E f \in WatchedFiles : FsEvent(f)
    \/ Elapse
    \/ TimerFires
    \/ ModuleChanged

SpecWatch == InitWatch /\ [][NextWatch]_vars

RECURSIVE Flatten(_)
Flatten(batches) ==
    IF batches = <<>> THEN <<>> ELSE Head(batches) \o Flatten(Tail(batches))

\* the events seen so far are, in their order and each once, the events of
\* the batches followed by the events still collected
EveryEventInOneBatch ==
    /\ \E all \in {Flatten(watcher.batches) \o watcher.changes} :
          /\ Len(all) = watcher.events
          /\ \A i \in 1 .. Len(all) : all[i].id = i
    /\ ~watcher.armed => watcher.changes = <<>>

\* a batch is handed on only when DELAY ms passed since the last event
BatchAfterQuiescence ==
    watcher'.batches # watcher.batches => watcher.quiet >= DELAY

\* onHookModuleChanged runs on the registry into which the whole batch of
\* its module was merged
ChangedAfterWholeBatch ==
    (ticks # <<>> /\ ticks' = Tail(ticks) /\ Head(ticks).kind = "changed")
        => hooksTable = watcher.merged

\* C33: the watcher groups the filesystem events into reload batches: a batch
\* is processed only after 200 ms without a new event, every event is in
\* exactly one batch, and onHookModuleChanged is fired only after all the
\* modules of the batch were merged.
C33_WatcherBatches ==
    /\ [](EveryEventInOneBatch)
    /\ [][BatchAfterQuiescence /\ ChangedAfterWholeBatch]_vars

\* two events were coalesced into one batch of two hook modules, both are
\* merged and the first onHookModuleChanged has run
C33_Witness ==
    /\ watcher.batches # <<>>
    /\ Len(HookModules(watcher.batches[1])) = 2
    /\ Len(ticks) = 1
    /\ lastrun.op = "runHook"

(***************************************************************************)
(* Claims on the accounting of uploads, checked under SpecAborts.          *)
(***************************************************************************)
\* the bytes accumulated by the request of connection k while it is still
\* collecting (a request destroyed by the data handler is, until its event)
InFlight(k) == IF req[k].phase \in {"collecting", "failing"} THEN req[k].dlen ELSE 0

RECURSIVE SumInFlight(_)
SumInFlight(ks) ==
    IF ks = {} THEN 0
    ELSE LET k == CHOOSE x \in ks : TRUE IN InFlight(k) + SumInFlight(ks \ {k})

\* C34: for every ordering of the data, end, error and aborted events of
\* concurrent POST requests (error and aborted both firing for one request,
\* aborted after end), pendingUploads is never negative and equals the sum of
\* the bytes accumulated by the requests still collecting, so the bytes of a
\* request are subtracted exactly once and it is 0 with no upload in flight.
C34_PendingUploadsIsSumInFlight ==
    /\ pendingUploads >= 0
    /\ pendingUploads = SumInFlight(Connections)

(***************************************************************************)
(* A chain that is reloaded while an invocation of it is suspended: the    *)
(* files s.hook.js and n.hook.js are edited between two priorities.        *)
(***************************************************************************)
ResumeFiles == {"s.hook.js", "x.hook.js", "n.hook.js"}

ResumeCatalogue ==
    [f \in ResumeFiles |->
        CASE f = "s.hook.js" ->
               {Module(Num(0), <<Export("S", Undefined, PageHook, Undefined, Str("sync"))>>),
                Module(Num(5), <<Export("S", Undefined, PageHook, Undefined, Str("sync"))>>)}
          [] f = "x.hook.js" ->
               {Module(Num(2), <<Export("A", Undefined, PageHook, Undefined, Str("async"))>>)}
          [] OTHER ->
               {Module(Num(3), <<Export("S", Undefined, PageHook, Undefined, PassLast)>>),
                Module(Num(0), <<Export("S", Undefined, PageHook, Undefined, PassLast)>>)}]

NextResume ==
    \/ \E f \in ResumeFiles : \E mod \in ResumeCatalogue[f] : LoadModule(f, mod)
    \/ ModuleChanged
    \/ \E st \in BOOLEAN : CallHook(ALL_CATS, PageHook, st, HookArgs[PageHook])
    \/ \E k \in 1 .. Len(inv.log) : Continue(k)
    \/ UserCallback

SpecResume == InitHooks /\ [][NextResume]_vars

\* a function, whatever the reload made of its priority or body: its file,
\* its chain, its policy and its categories
FunctionKey(h) == <<h.src, h.type, h.execPolicy, h.cat>>

\* the invocation was suspended, resumed (each ASYNC function called its
\* continuation at most once) and has ended with its terminal callback; no
\* function threw and each was applied to arguments it could be applied to
ResumedAndEnded ==
    /\ inv.active /\ ~inv.threw
    /\ inv.resumed # <<>>
    /\ \A a, b \in 1 .. Len(inv.resumed) : a # b => inv.resumed[a] # inv.resumed[b]
    /\ Len(inv.delivered) = 1
    /\ \A i \in 1 .. Len(inv.log) :
          inv.log[i].applied /\ inv.log[i].fn.ret.t # "callsBack"

\* the included functions that followed the function logged at place k in the
\* chain as it was when the invocation started
FollowersAtStart(k) ==
    {inv.chain[j] : j \in {j \in 1 .. Len(inv.chain) :
        /\ \E p \in 1 .. Len(inv.chain) :
              p < j /\ FunctionKey(inv.chain[p]) = FunctionKey(inv.log[k].fn)
        /\ compareFunc(inv.ctx.strict, inv.chain[j].cat, inv.catMask)}}

\* the places of the log after place k where function f was invoked
RunsAfter(k, f) ==
    {i \in k + 1 .. Len(inv.log) : FunctionKey(inv.log[i].fn) = FunctionKey(f)}

\* C35: a suspended CALL-mode invocation sees a consistent chain even when
\* the registry is changed before its continuation is called: the functions
\* that followed the ASYNC function in the chain as it was when the invocation
\* started run after the resumption, each exactly once.
C35_ResumeOnChainAtStart ==
    ResumedAndEnded =>
        \A f \in FollowersAtStart(inv.resumed[1]) :
            Cardinality(RunsAfter(inv.resumed[1], f)) = 1

(***************************************************************************)
(* Two CALL-mode invocations of one chain in flight at once.  Here inv     *)
(* maps each invocation to what is followed of it, and lastrun is the      *)
(* order of the calls, continuations and terminal callbacks so far.  The   *)
(* chain holds a SYNC, an EVENT, an ASYNC and a SYNC function.             *)
(***************************************************************************)
Invocations == {"i1", "i2"}

PairFiles == <<"s.hook.js", "e.hook.js", "x.hook.js", "n.hook.js">>

PairDisk ==
    [f \in ChainFiles |->
        CHOOSE mod \in ChainCatalogue[f] :
            \A e \in 1 .. Len(mod.exports) : mod.exports[e].ret.t # "callsBack"]

PairTable == MergeAll([n \in HookNames |-> Undefined], PairFiles, PairDisk)

ContextOf_Shared(invs, i) == invs[CHOOSE j \in Invocations : TRUE].ctx

\* the context the continuation of invocation i has closed over: the one
\* callHook created for it
ContextOf(invs, i) == invs[i].ctx

\* callHook / callHookStrict(catMask, name, cb, ...args), as invocation i
PairCall(i, catMask, strict) ==
    /\ ticks = <<>>
    /\ ~inv[i].active
    /\ \E r \in {StartCall("user", catMask, PageHook, strict, HookArgs[PageHook])} :
          /\ inv' = [inv EXCEPT ![i] = InvAfter(NewInv("user", catMask, PageHook, strict), r)]
          /\ ticks' = IF r.outcome = "tick" THEN Append(ticks, [kind |-> "cb", of |-> i])
                       ELSE ticks
    /\ lastrun' = Append(lastrun, <<"call", i>>)
    /\ UNCHANGED <<sideVars, hooksTable, cacheVars, serverVars>>

\* the ASYNC function logged at place k of invocation i calls this.callback
PairContinue(i, k) ==
    /\ inv[i].active
    /\ inv[i].ctx.callback = "continuation"
    /\ inv[i].log[k].fn.execPolicy = 2
    /\ \A a \in 1 .. Len(inv[i].resumed) : inv[i].resumed[a] # k
    /\ \E ctx \in {ContextOf(inv, i)} :
        \E c1 \in {[ctx EXCEPT !._lastResult = Returned(inv[i].log[k].fn, ctx)]} :
        \E r \in {IF CanSpread(ctx.cbArgs)
                   THEN HookExecutor_call(hooksTable[inv[i].name].hooks, c1._nextHook, c1,
                                          inv[i].catMask, FirstOfSpread(ctx.cbArgs),
                                          inv[i].log)
                   ELSE [ctx |-> c1, log |-> inv[i].log, outcome |-> "threw"]} :
          /\ inv' = [inv EXCEPT ![i] =
                        [InvAfter(inv[i], r) EXCEPT !.continues = @ + 1,
                                                    !.resumed = Append(@, k)]]
          /\ ticks' = IF r.outcome = "tick" THEN Append(ticks, [kind |-> "cb", of |-> i])
                       ELSE ticks
    /\ lastrun' = Append(lastrun, <<"continue", i>>)
    /\ UNCHANGED <<sideVars, hooksTable, cacheVars, serverVars>>

\* the tick of call fires: cb(context._lastResult) of invocation i
PairCallback(i) ==
    /\ ticks # <<>>
    /\ Head(ticks).kind = "cb" /\ Head(ticks).of = i
    /\ inv' = [inv EXCEPT ![i].delivered = Append(@, ContextOf(inv, i)._lastResult)]
    /\ ticks' = Tail(ticks)
    /\ lastrun' = Append(lastrun, <<"cb", i>>)
    /\ UNCHANGED <<sideVars, hooksTable, cacheVars, serverVars>>

InitPair ==
    /\ cache = ResponseCache_new(CacheSizeLimit)
    /\ now = 0
    /\ last = NoCall
    /\ mru = <<>>
    /\ SideIdle
    /\ hooksTable = PairTable
    /\ inv = [i \in Invocations |-> NoInv]
    /\ lastrun = <<>>
    /\ ticks = <<>>
    /\ ServerIdle

NextPair ==
    \/ \E i \in Invocations, m \in ChainMasks, st \in BOOLEAN : PairCall(i, m, st)
    \/ \E i \in Invocations : \E k \in 1 .. Len(inv[i].log) : PairContinue(i, k)
    \/ \E i \in Invocations : PairCallback(i)

SpecPair == InitPair /\ [][NextPair]_vars

\* the functions invoked, in the order of their invocation
FunctionsRun(log) == [i \in 1 .. Len(log) |-> log[i].fn]

\* the functions of chain that an invocation includes
Matching(chain, strict, catMask) ==
    SelectSeq(chain, LAMBDA h : compareFunc(strict, h.cat, catMask))

RECURSIVE LastResultOf(_, _)
\* _lastResult after the functions fns ran in this order, from lr
LastResultOf(fns, lr) ==
    IF fns = <<>> THEN lr
    ELSE LastResultOf(Tail(fns),
                      IF Head(fns).execPolicy = 1 \/ Head(fns).ret = PassLast THEN lr
                      ELSE Head(fns).ret)

\* the included functions of the chain of invocation i
MatchingOf(i) == Matching(inv[i].chain, inv[i].ctx.strict, inv[i].catMask)

\* invocation i is suspended in the function at place p of its log
SuspendedAt(i, p) ==
    /\ inv[i].active /\ inv[i].delivered = <<>> /\ ~inv[i].threw
    /\ inv[i].ctx.callback = "continuation"
    /\ p = Len(inv[i].log) /\ inv[i].log[p].fn.execPolicy = 2
    /\ \A a \in 1 .. Len(inv[i].resumed) : inv[i].resumed[a] # p

\* C36: two CALL-mode invocations of one chain that are in flight at once,
\* their continuations called in any order, do not interfere: each has its
\* own lastResult and its own resume index, each runs every included function
\* exactly once, and the terminal callback of each is called once with the
\* lastResult of its own invocation.
C36_InvocationsIndependent ==
    \A i \in Invocations :
        /\ Len(inv[i].delivered) <= 1
        /\ \A p \in 1 .. Len(inv[i].log) :
              SuspendedAt(i, p) =>
                 /\ FunctionsRun(inv[i].log) = SubSeq(MatchingOf(i), 1, p)
                 /\ inv[i].chain[inv[i].ctx._nextHook] = inv[i].log[p].fn
                 /\ inv[i].ctx._lastResult
                       = LastResultOf(SubSeq(MatchingOf(i), 1, p - 1), Undefined)
        /\ Len(inv[i].delivered) = 1 =>
              /\ FunctionsRun(inv[i].log) = MatchingOf(i)
              /\ inv[i].delivered[1] = LastResultOf(MatchingOf(i), Undefined)

\* the place of event e in the order of events
PlaceOf(e) == CHOOSE a \in 1 .. Len(lastrun) : lastrun[a] = e

\* both invocations were suspended at once, with different masks; the one
\* called last was resumed first, and both have ended with different results
C36_Witness ==
    /\ \A i \in Invocations : Len(inv[i].delivered) = 1 /\ Len(inv[i].resumed) = 1
    /\ PlaceOf(<<"call", "i1">>) < PlaceOf(<<"call", "i2">>)
    /\ PlaceOf(<<"call", "i2">>) < PlaceOf(<<"continue", "i2">>)
    /\ PlaceOf(<<"continue", "i2">>) < PlaceOf(<<"continue", "i1">>)
    /\ inv["i1"].catMask # inv["i2"].catMask
    /\ inv["i1"].log # inv["i2"].log

(***************************************************************************)
(* Claims on the age of cached responses, checked under SpecServer.        *)
(***************************************************************************)
\* the step answers request req' from the cache
ServedFromCache == req' # req /\ req'.phase = "done" /\ req'.outcome = "cache"

C38_SameArgumentsThroughout ==
    (inv.active /\ hooksTable[inv.name] = HookExecutor(inv.chain)) =>
        \A i \in 1 .. Len(inv.log) :
            /\ inv.log[i].applied
            /\ inv.log[i].args = Applied(HookArgs[inv.name])

(***************************************************************************)
(* Claims on the size of one upload, checked under SpecServer.             *)
(***************************************************************************)
\* the body of the POST followed has ended and was handed to
\* __runExternalRequestHandler
BodyHandedOver ==
    /\ req.phase \in {"hooks", "done", "threw"}
    /\ req.method = "POST"
    /\ req.outcome # "none"

\* C39: no POST accumulates more than uploadMaxUnitSize bytes before it is
\* handed to the hooks: the limit of one request is enforced on the bytes
\* received, also when the Content-Length is absent or smaller than the body.
C39_UnitSizeEnforcedOnBytes ==
    /\ req.phase = "collecting" => req.dlen <= UploadMaxUnitSize
    /\ BodyHandedOver => req.dlen <= UploadMaxUnitSize

(***************************************************************************)
(* collections.LinkedList driven directly: items are inserted, appended    *)
(* and removed in any order.  An item put into the list is a new one or    *)
(* one that was removed before; an item removed is any item.  members is   *)
(* the content the calls made so far should have left, kept apart from the *)
(* links.                                                                  *)
(***************************************************************************)
ListOf(l, members, op) == [l |-> l, members |-> members, op |-> op]

ListOp(name, item, place) == [name |-> name, item |-> item, place |-> place]

Members(seq) == {seq[i] : i \in 1 .. Len(seq)}

\* where item stands in seq
PlaceIn(seq, item) ==
    IF item \notin Members(seq) THEN "out"
    ELSE IF Len(seq) = 1 THEN "only"
    ELSE IF seq[1] = item THEN "head"
    ELSE IF seq[Len(seq)] = item THEN "tail"
    ELSE "middle"

\* list.insert(item)
ListInsert(item) ==
    /\ item \notin Members(list.members)
    /\ list' = ListOf(LinkedList_insert(list.l, item), <<item>> \o list.members,
                      ListOp("insert", item, "head"))
    /\ UNCHANGED <<cacheVars, hookVars, serverVars, instance, watcher>>

\* list.append(item)
ListAppend(item) ==
    /\ item \notin Members(list.members)
    /\ list' = ListOf(LinkedList_append(list.l, item), Append(list.members, item),
                      ListOp("append", item, "tail"))
    /\ UNCHANGED <<cacheVars, hookVars, serverVars, instance, watcher>>

\* list.remove(item)
ListRemove(item) ==
    /\ list' = ListOf(LinkedList_remove(list.l, item),
                      SelectSeq(list.members, LAMBDA x : x # item),
                      ListOp("remove", item, PlaceIn(list.members, item)))
    /\ UNCHANGED <<cacheVars, hookVars, serverVars, instance, watcher>>

InitList ==
    /\ cache = ResponseCache_new(CacheSizeLimit)
    /\ now = 0
    /\ last = NoCall
    /\ mru = <<>>
    /\ HooksIdle
    /\ ServerIdle
    /\ instance = Null
    /\ watcher = Null
    /\ list = ListOf(LinkedList_new, <<>>, ListOp("new", NULL, "out"))

NextList ==
    \/ \E item \in Ids : ListInsert(item)
    \/ \E item \in Ids : ListAppend(item)
    \/ \E item \in Ids : ListRemove(item)

SpecList == InitList /\ [][NextList]_vars

\* the items from item along prev (at most n steps)
RECURSIVE LinkedList_walkBack(_, _, _)
LinkedList_walkBack(l, from, n) ==
    IF from = NULL \/ n = 0 THEN <<>>
    ELSE <<from>> \o LinkedList_walkBack(l, l.prev[from], n - 1)

Reversed(seq) == [i \in 1 .. Len(seq) |-> seq[Len(seq) + 1 - i]]

\* C40: after any sequence of insert, append and remove (of the head, the
\* tail or a middle item) the list is well formed: next from head() visits
\* every item once and ends at tail(), prev from tail() visits them in the
\* reverse order, head().prev and tail().next are null, an item that is not
\* in the list (a removed one) has null links, and tail() of a list of one
\* item is that item.
C40_ListWellFormed ==
    /\ LinkedList_values(list.l) = list.members
    /\ LinkedList_walkBack(list.l, LinkedList_tail(list.l), Cardinality(Ids) + 1)
          = Reversed(list.members)
    /\ list.members = <<>> =>
          LinkedList_head(list.l) = NULL /\ LinkedList_tail(list.l) = NULL
    /\ list.members # <<>> =>
          /\ LinkedList_head(list.l) = list.members[1]
          /\ LinkedList_tail(list.l) = list.members[Len(list.members)]
          /\ list.l.prev[LinkedList_head(list.l)] = NULL
          /\ list.l.next[LinkedList_tail(list.l)] = NULL
    /\ \A item \in Ids \ Members(list.members) :
          list.l.prev[item] = NULL /\ list.l.next[item] = NULL

\* the middle item of a list built by insert and append was removed: the two
\* items left are linked to each other and the removed one to nothing
C40_Witness ==
    /\ list.op = ListOp("remove", "B", "middle")
    /\ list.members = <<"A", "C">>
    /\ list.l.next["A"] = "C" /\ list.l.prev["C"] = "A"
    /\ LinkedList_tail(list.l) = "C"
    /\ list.l.prev["B"] = NULL /\ list.l.next["B"] = NULL

=============================================================================
